---------------------------- MODULE Spec2Model ----------------------------
(***************************************************************************)
(* Minesweeper game (minesweeper.py), the turn loop of MinesweeperAI        *)
(* (minesweeper_ai.py) and the MinesweeperSolver (minesweeper_solver.py).   *)
(*                                                                         *)
(* Coordinates are 0-indexed <<row, col>> pairs.  Board cells hold the      *)
(* strings the game stores: "?" unrevealed, " " revealed with no adjacent   *)
(* mine, "1".."8" revealed with that many adjacent mines, "*" a mine shown  *)
(* when the game is over.                                                   *)
(***************************************************************************)
EXTENDS Integers, Sequences, FiniteSets, TLC

\* Largest board and mine count a game is played on in the model.
MaxRows == 3
MaxCols == 4
MaxMines == 2
WideCols == 5
MaxEntry == 3
BoardRows == 2
BoardCols == 3
MaxNumber == 2

\* Minesweeper.defaultGameConfig
defaultGameConfig == <<16, 16, 40>>

---------------------------------------------------------------------------
\* Generic helpers

Max2(a, b) == IF a >= b THEN a ELSE b
Min2(a, b) == IF a <= b THEN a ELSE b
Abs(x) == IF x < 0 THEN -x ELSE x

RECURSIVE SetSum(_, _)
\* sum(f[x] for x in S)
SetSum(f, S) ==
    IF S = {} THEN 0
    ELSE LET x == CHOOSE y \in S : TRUE IN f[x] + SetSum(f, S \ {x})

\* range(rows) x range(cols); empty when either is not positive
Cells(r, c) == {<<i, j>> : i \in 0..(r - 1), j \in 0..(c - 1)}

\* row-major position of a cell, the order of the nested range() loops
RowMajorLess(a, b) == a[1] < b[1] \/ (a[1] = b[1] /\ a[2] < b[2])

RECURSIVE RowMajor(_)
\* the cells of S as a sequence in row-major order
RowMajor(S) ==
    IF S = {} THEN <<>>
    ELSE LET x == CHOOSE y \in S : \A z \in S : z = y \/ RowMajorLess(y, z)
         IN <<x>> \o RowMajor(S \ {x})

Reverse(s) == [k \in 1..Len(s) |-> s[Len(s) + 1 - k]]

\* MinesweeperAI.distance: Chebyshev distance
distance(sq1, sq2) == Max2(Abs(sq1[1] - sq2[1]), Abs(sq1[2] - sq2[2]))

\* the eight coordinates around a square, in or out of bounds
Around(sq) == {<<sq[1] + di, sq[2] + dj>> : di \in -1..1, dj \in -1..1} \ {sq}

\* str(n) for a mine count and int(s) for a digit cell
Digits == <<"1", "2", "3", "4", "5", "6", "7", "8">>
str(n) == Digits[n]
isdigit(v) == \E n \in 1..Len(Digits) : Digits[n] = v
int(v) == CHOOSE n \in 1..Len(Digits) : Digits[n] = v

---------------------------------------------------------------------------
\* Python floats.  The solver's probabilities and expectedMineTotal are
\* IEEE-754 doubles: every true division and every float addition or
\* subtraction yields the exact result rounded to Prec significant bits,
\* ties to even.  A number is a record [neg, exp, man]: man is a sequence of
\* digits in base Base, most significant first, and the value is
\* (-1)^neg * man * 2^exp.  A float is such a number whose man has exactly
\* Prec bits (in PrecLimbs digits), or Zero.

\* significant bits of a double
Prec == 53

Base == 2^15
LimbBits == CHOOSE k \in 1..30 : 2^k = Base
PrecLimbs == (Prec + LimbBits - 1) \div LimbBits

Zero == [neg |-> FALSE, exp |-> 0, man |-> <<>>]

ZeroLimbs(k) == [i \in 1..k |-> 0]

At(a, i) == IF i >= 1 /\ i <= Len(a) THEN a[i] ELSE 0

RECURSIVE NatLimbs(_)
\* the digits of a natural number, none for 0
NatLimbs(n) == IF n = 0 THEN <<>> ELSE Append(NatLimbs(n \div Base), n % Base)

RECURSIVE StripLimbs(_)
StripLimbs(a) == IF a = <<>> \/ a[1] # 0 THEN a ELSE StripLimbs(Tail(a))

\* number of bits of a digit sequence
BitLen(a) ==
    LET s == StripLimbs(a)
    IN IF s = <<>> THEN 0
       ELSE (Len(s) - 1) * LimbBits
            + (CHOOSE k \in 1..LimbBits : 2^(k - 1) <= s[1] /\ s[1] < 2^k)

\* a * 2^t
ShiftLeft(a, t) ==
    LET s == t % LimbBits
    IN [j \in 1..(Len(a) + 1) |->
           ((At(a, j - 1) * 2^s) % Base) + ((At(a, j) * 2^s) \div Base)]
       \o ZeroLimbs(t \div LimbBits)

\* a \div 2^t
ShiftRight(a, t) ==
    LET s == t % LimbBits
        n == Len(a) - (t \div LimbBits)
    IN [j \in 1..Max2(n, 0) |->
           ((At(a, j - 1) % 2^s) * 2^(LimbBits - s)) + (a[j] \div 2^s)]

\* bit k of a, bit 0 being the least significant
BitAt(a, k) == (At(a, Len(a) - (k \div LimbBits)) \div 2^(k % LimbBits)) % 2

\* a % 2^t # 0
LowBitsNonzero(a, t) ==
    \/ \E i \in (Len(a) - (t \div LimbBits) + 1)..Len(a) : i >= 1 /\ a[i] # 0
    \/ (At(a, Len(a) - (t \div LimbBits)) % 2^(t % LimbBits)) # 0

RECURSIVE AddLimbs(_, _, _, _)
\* digits 0..i of a + b for two digit sequences of equal length, given the
\* carry into digit i
AddLimbs(a, b, i, carry) ==
    IF i = 0 THEN <<carry>>
    ELSE LET s == a[i] + b[i] + carry
         IN Append(AddLimbs(a, b, i - 1, s \div Base), s % Base)

RECURSIVE SubLimbs(_, _, _, _)
\* a - b for a >= b, same layout
SubLimbs(a, b, i, borrow) ==
    IF i = 0 THEN <<0>>
    ELSE LET s == a[i] - b[i] - borrow
         IN Append(SubLimbs(a, b, i - 1, IF s < 0 THEN 1 ELSE 0), s % Base)

\* -1, 0, 1 as a < b, a = b, a > b for digit sequences of equal length
CmpLimbs(a, b) ==
    LET D == {i \in 1..Len(a) : a[i] # b[i]}
    IN IF D = {} THEN 0
       ELSE LET i == CHOOSE k \in D : \A l \in D : k <= l
            IN IF a[i] > b[i] THEN 1 ELSE -1

\* an exact number in canonical form: no leading zero digits
Norm(neg, exp, a) ==
    LET s == StripLimbs(a)
    IN IF s = <<>> THEN Zero ELSE [neg |-> neg, exp |-> exp, man |-> s]

\* a digit sequence lengthened to n digits
PadLimbs(a, n) == ZeroLimbs(n - Len(a)) \o a

\* (-1)^xneg * a + (-1)^yneg * b at exponent e, for digit sequences of
\* equal length n
SignedSum(xneg, yneg, e, a, b, n) ==
    IF xneg = yneg THEN Norm(xneg, e, AddLimbs(a, b, n, 0))
    ELSE IF CmpLimbs(a, b) >= 0 THEN Norm(xneg, e, SubLimbs(a, b, n, 0))
    ELSE Norm(yneg, e, SubLimbs(b, a, n, 0))

\* the same for digit sequences of any lengths
AlignedSum(xneg, yneg, e, a, b) ==
    SignedSum(xneg, yneg, e,
              PadLimbs(a, Max2(Len(a), Len(b))), PadLimbs(b, Max2(Len(a), Len(b))),
              Max2(Len(a), Len(b)))

\* x + y with both mantissas brought to the exponent e
SumAt(x, y, e) ==
    AlignedSum(x.neg, y.neg, e,
               ShiftLeft(x.man, x.exp - e), ShiftLeft(y.man, y.exp - e))

\* exact sum of two numbers
ExactAdd(x, y) ==
    IF x.man = <<>> THEN y
    ELSE IF y.man = <<>> THEN x
    ELSE SumAt(x, y, Min2(x.exp, y.exp))

ExactNeg(x) == IF x.man = <<>> THEN x ELSE [x EXCEPT !.neg = ~x.neg]

\* an integer as an exact number
ExactInt(n) == Norm(n < 0, 0, NatLimbs(Abs(n)))

RECURSIVE ExactTimes(_, _)
\* x * k for a natural number k
ExactTimes(x, k) == IF k = 0 THEN Zero ELSE ExactAdd(x, ExactTimes(x, k - 1))

\* d <= 0
NotPositive(d) == d.man = <<>> \/ d.neg

\* x <= y, exactly
ExactLe(x, y) == NotPositive(ExactAdd(x, ExactNeg(y)))

\* a mantissa in the PrecLimbs digits of a float
Canon(a) ==
    LET s == StripLimbs(a) IN ZeroLimbs(PrecLimbs - Len(s)) \o s

\* m + 1
Increment(m) == AddLimbs(m, ZeroLimbs(Len(m)), Len(m), 1)

\* the float of a mantissa rounded up to inc, which may have gained a bit
RoundedUp(neg, exp, inc) ==
    IF BitLen(inc) = Prec THEN [neg |-> neg, exp |-> exp, man |-> Canon(inc)]
    ELSE [neg |-> neg, exp |-> exp + 1, man |-> Canon(ShiftRight(inc, 1))]

\* rounding away the t lowest bits of x's mantissa, ties to even
RoundCut(x, sticky, t) ==
    IF /\ BitAt(x.man, t - 1) = 1
       /\ (sticky \/ LowBitsNonzero(x.man, t - 1) \/ BitAt(x.man, t) = 1)
    THEN RoundedUp(x.neg, x.exp + t, Increment(ShiftRight(x.man, t)))
    ELSE [neg |-> x.neg, exp |-> x.exp + t, man |-> Canon(ShiftRight(x.man, t))]

\* rounding a number whose mantissa has L bits
RoundBits(x, sticky, L) ==
    IF L = 0 THEN Zero
    ELSE IF L <= Prec
    THEN [neg |-> x.neg, exp |-> x.exp + L - Prec,
          man |-> Canon(ShiftLeft(x.man, Prec - L))]
    ELSE RoundCut(x, sticky, L - Prec)

\* round an exact number (plus a nonzero remainder below its last bit when
\* sticky) to a float: Prec bits, ties to even
Round(x, sticky) == RoundBits(x, sticky, BitLen(x.man))

\* float(n)
Float(n) == Round(ExactInt(n), FALSE)

\* x + y and x - y on floats
FloatAdd(x, y) == Round(ExactAdd(x, y), FALSE)
FloatSub(x, y) == Round(ExactAdd(x, ExactNeg(y)), FALSE)

RECURSIVE DivLimbs(_, _, _, _)
\* long division of the digits i.. of a by d < Base, r being the remainder
\* carried in: quotient digits q and final remainder r
DivLimbs(a, d, i, r) ==
    IF i > Len(a) THEN [q |-> <<>>, r |-> r]
    ELSE LET t    == r * Base + a[i]
             rest == DivLimbs(a, d, i + 1, t % d)
         IN [q |-> <<t \div d>> \o rest.q, r |-> rest.r]

\* the float of a quotient of x's mantissa, res being DivLimbs's result
RoundQuotient(x, res) ==
    Round([neg |-> x.neg, exp |-> x.exp - 2 * LimbBits, man |-> res.q], res.r # 0)

\* x / d for a float x and a positive integer d: the quotient is taken to
\* two more digits than the mantissa, enough for Prec bits and a guard bit
FloatDiv(x, d) ==
    IF x.man = <<>> THEN Zero
    ELSE RoundQuotient(x, DivLimbs(x.man \o ZeroLimbs(2), d, 1, 0))

FloatLe(x, y) == ExactLe(x, y)
FloatLt(x, y) == ~ExactLe(y, x)

\* max(a, b) and min(a, b) as Python evaluates them: the first argument
\* unless the second is strictly larger (smaller)
FloatMax(a, b) == IF FloatLt(a, b) THEN b ELSE a
FloatMin(a, b) == IF FloatLt(b, a) THEN b ELSE a

\* min(S) for a nonempty set of floats
FloatSetMin(S) == CHOOSE x \in S : \A y \in S : FloatLe(x, y)

---------------------------------------------------------------------------
\* The game: minesweeper.py

\* Minesweeper.validGameConfig
validGameConfig(game_config) ==
    /\ Len(game_config) = 3
    /\ \A k \in 1..3 : game_config[k] # 0
    /\ game_config[3] < game_config[1] * game_config[2]

\* Minesweeper.reset: the configuration in force after reset(game_config)
\* when the attributes held cur before (0 stands for a falsy, unset one)
resetConfig(game_config, cur) ==
    IF validGameConfig(game_config) THEN game_config
    ELSE IF ~(cur[1] # 0 /\ cur[2] # 0 /\ cur[3] # 0) THEN defaultGameConfig
    ELSE cur

\* Minesweeper.reset: the fresh board
resetBoard(r, c) == [sq \in Cells(r, c) |-> "?"]

\* Minesweeper.safeGet; "None" stands for None
gameSafeGet(b, r, c, rowCol) ==
    IF rowCol[1] < 0 \/ rowCol[1] >= r \/ rowCol[2] < 0 \/ rowCol[2] >= c
    THEN "None"
    ELSE b[rowCol]

\* countMines looking only at the four squares that share a side: the
\* counts shown are then not the true ones (C7)
countMinesBesides(mineLocs, rowCol) ==
    Cardinality({q \in mineLocs : Abs(q[1] - rowCol[1]) + Abs(q[2] - rowCol[2]) = 1})

\* Minesweeper.countMines
countMines(mineLocs, rowCol) == Cardinality(Around(rowCol) \cap mineLocs)

\* Minesweeper.getAdjacentSquares
getAdjacentSquares(b, r, c, square) ==
    {rowCol \in Around(square) : gameSafeGet(b, r, c, rowCol) = "?"}

\* isWon waiting for every square to be seen: a game with nothing but
\* mines left is still in progress (C6)
isWonAllSeen(r, c, m, seenCount) == seenCount = r * c

\* Minesweeper.isWon
isWon(r, c, m, seenCount) == seenCount = r * c - m

\* Minesweeper.revealMinesInBoard: the board with every mine shown
revealMinesInBoard(b, mineLocs) ==
    [sq \in DOMAIN b |-> IF sq \in mineLocs THEN "*" ELSE b[sq]]

\* placeMines ignoring exclude: the first square revealed can be a mine (C5)
placeMinesAnywhere(r, c, m, exclude) ==
    {S \in SUBSET Cells(r, c) : Cardinality(S) = Max2(m, 0)}

\* Minesweeper.placeMines: the sets the random placement loop can end with.
\* `for i in range(self.mines)` places nothing when mines is not positive
placeMines(r, c, m, exclude) ==
    {S \in SUBSET (Cells(r, c) \ {exclude}) : Cardinality(S) = Max2(m, 0)}

RECURSIVE revealWaves(_, _, _, _, _, _)
\* Minesweeper.revealSquare, the while loop: reveals the squares of one wave,
\* then moves on to the unrevealed neighbours of those showing " "
revealWaves(b, r, c, mineLocs, squares, seenCount) ==
    IF squares = {} THEN [board |-> b, seen |-> seenCount]
    ELSE LET shown == [sq \in DOMAIN b |->
                         IF sq \in squares
                         THEN IF countMines(mineLocs, sq) = 0 THEN " "
                              ELSE str(countMines(mineLocs, sq))
                         ELSE b[sq]]
             newSquares == UNION {getAdjacentSquares(shown, r, c, sq) :
                                    sq \in {s \in squares : shown[s] = " "}}
         IN revealWaves(shown, r, c, mineLocs, newSquares,
                        seenCount + Cardinality(squares))

---------------------------------------------------------------------------
\* The solver: minesweeper_solver.py (and the helpers of minesweeper_ai.py)
\*
\* g is the game as the solver reads it, a record [rows, cols, mines, board];
\* st is the solver's marks during one analysis, a record
\* [mines, safe, newMarks] for self.mines, self.safeUnrevealed and newMarks.
\*
\* Python iterates over a set in an order the language leaves open.  Where
\* the source iterates over a set of squares and the order can change what
\* is computed, the model says which order it takes.

\* MinesweeperSolver.safeGet: the board overlaid with the solver's marks
safeGet(g, st, sq) ==
    IF sq \in st.mines THEN "*"
    ELSE IF sq \in st.safe THEN "S"
    ELSE gameSafeGet(g.board, g.rows, g.cols, sq)

\* MinesweeperAI.isMine, isUnknown, isNum
isMine(value) == value = "*"
isUnknown(value) == value = "?"
isNum(value) == isdigit(value)

\* the arguments of a conditionFn: a square and the value read at it
Squares == Int \X Int

\* MinesweeperAI.getSurroundingSquares with transformSqFn = justPosition:
\* the in-bounds squares around sq whose overlaid value satisfies
\* conditionFn, a function of the square and its value
getSurroundingSquares(g, st, sq, conditionFn) ==
    {p \in Around(sq) : /\ safeGet(g, st, p) # "None"
                        /\ conditionFn[p, safeGet(g, st, p)]}

unknownsAround(g, st, sq) ==
    getSurroundingSquares(g, st, sq, [p \in Squares, v \in STRING |-> isUnknown(v)])
minesAround(g, st, sq) ==
    getSurroundingSquares(g, st, sq, [p \in Squares, v \in STRING |-> isMine(v)])
numsAround(g, st, sq) ==
    getSurroundingSquares(g, st, sq, [p \in Squares, v \in STRING |-> isNum(v)])

\* number on a numbered square minus the mines marked around it
minesRemainingAt(g, st, sq) ==
    int(safeGet(g, st, sq)) - Cardinality(minesAround(g, st, sq))

\* markNonAdjacentSafes without its test: the squares away from sq are
\* marked safe whatever the number of mines left (C2)
markNonAdjacentAlways(g, st, sq, numRemainingMines) ==
    [st EXCEPT !.safe = @ \cup {p \in Cells(g.rows, g.cols) :
                                  distance(sq, p) > 1 /\ safeGet(g, st, p) = "?"}]

\* analyzeNumSquare, `if allRemainingMinesAdj`: st with the unknown squares
\* that are not around sq marked safe when all the game's remaining mines
\* are around it
markNonAdjacentSafes(g, st, sq, numRemainingMines) ==
    LET nonAdjacentSafes ==
            IF numRemainingMines = g.mines - Cardinality(st.mines)
            THEN {p \in Cells(g.rows, g.cols) :
                    distance(sq, p) > 1 /\ safeGet(g, st, p) = "?"}
            ELSE {}
    IN [st EXCEPT !.safe = @ \cup nonAdjacentSafes,
                  !.newMarks = @ \cup nonAdjacentSafes]

\* markUnknowns marking the unknowns as mines as soon as one mine remains
\* among them (C1)
markUnknownsAsMines(st, unknowns, numRemainingMines) ==
    IF numRemainingMines > 0
    THEN [complete |-> TRUE, st |-> [st EXCEPT !.mines = @ \cup unknowns]]
    ELSE [complete |-> TRUE, st |-> [st EXCEPT !.safe = @ \cup unknowns]]

\* analyzeNumSquare, the last if statement
markUnknowns(st, unknowns, numRemainingMines) ==
    IF Cardinality(unknowns) - numRemainingMines = 0
    THEN [complete |-> TRUE,
          st |-> [st EXCEPT !.mines = @ \cup unknowns,
                            !.newMarks = @ \cup unknowns]]
    ELSE IF numRemainingMines = 0
    THEN [complete |-> TRUE,
          st |-> [st EXCEPT !.safe = @ \cup unknowns,
                            !.newMarks = @ \cup unknowns]]
    ELSE [complete |-> FALSE, st |-> st]

\* analyzeNumSquare comparing the square's missing mines with the game's
\* only after the last if statement has marked the unknowns around it
analyzeUnknownsFirst(g, st, sq, unknowns) ==
    IF unknowns = {} THEN [complete |-> TRUE, st |-> st]
    ELSE LET marked == markUnknowns(st, unknowns, minesRemainingAt(g, st, sq))
         IN [complete |-> marked.complete,
             st |-> markNonAdjacentSafes(g, marked.st, sq, minesRemainingAt(g, st, sq))]

\* analyzeNumSquare once the unknowns around sq are known
analyzeUnknowns(g, st, sq, unknowns) ==
    IF unknowns = {} THEN [complete |-> TRUE, st |-> st]
    ELSE markUnknowns(markNonAdjacentSafes(g, st, sq, minesRemainingAt(g, st, sq)),
                      unknowns, minesRemainingAt(g, st, sq))

\* analyzeNumSquare on sq meets a contradiction: with unknowns around it,
\* numRemainingMines < 0 or numRemainingSafes < 0
contradictionAt(g, st, sq) ==
    /\ isdigit(safeGet(g, st, sq))
    /\ unknownsAround(g, st, sq) # {}
    /\ \/ minesRemainingAt(g, st, sq) < 0
       \/ Cardinality(unknownsAround(g, st, sq)) - minesRemainingAt(g, st, sq) < 0

\* analyzeNumSquare marking nothing and calling no square complete
analyzeNothing(g, st, sq) == [complete |-> FALSE, st |-> st]

\* MinesweeperSolver.analyzeNumSquare: [complete, st]
analyzeNumSquare(g, st, sq) == analyzeUnknowns(g, st, sq, unknownsAround(g, st, sq))

\* getNonFrontierUnknowns without its test for '?': revealed squares away
\* from every number are offered as moves (C12)
getNonFrontierSquares(g, st) ==
    {p \in Cells(g.rows, g.cols) : numsAround(g, st, p) = {}}

\* MinesweeperSolver.getNonFrontierUnknowns
getNonFrontierUnknowns(g, st) ==
    {p \in Cells(g.rows, g.cols) :
        safeGet(g, st, p) = "?" /\ numsAround(g, st, p) = {}}

\* markSafeAndMines: numberedSquares, in the order of the nested loops
numberedSquares(g, st) ==
    RowMajor({p \in Cells(g.rows, g.cols) : isdigit(safeGet(g, st, p))})

\* every analysed square taken as complete, whatever analyzeNumSquare
\* returned: it is analysed once and put in no frontier
noteAnalyzed(acc, sq, res) == [st |-> res.st, seen |-> acc.seen \cup {sq}]

\* seen.add((i, j)) if complete; acc is [st, seen]
noteComplete(acc, sq, res) ==
    [st |-> res.st,
     seen |-> IF res.complete THEN acc.seen \cup {sq} ELSE acc.seen]

RECURSIVE analyzeEach(_, _, _, _)
\* markSafeAndMines, the two loops over numberedSquares: analyzes
\* squares[k..] in turn, skipping those in seen (none are on the first
\* loop), and adds the complete ones to seen.  acc is [st, seen]
analyzeEach(g, acc, squares, k) ==
    IF k > Len(squares) THEN acc
    ELSE IF squares[k] \in acc.seen THEN analyzeEach(g, acc, squares, k + 1)
    ELSE analyzeEach(g,
             noteComplete(acc, squares[k], analyzeNumSquare(g, acc.st, squares[k])),
             squares, k + 1)

RECURSIVE growFrontier(_, _, _)
\* markSafeAndMines, the loop `while unknowns` of the frontier construction.
\* f is [unknowns, frontierNums, frontierUnknowns, seen]
growFrontier(g, st, f) ==
    IF f.unknowns = {} THEN f
    ELSE LET nextNumbers ==
                 UNION {getSurroundingSquares(g, st, u,
                            [p \in Squares, v \in STRING |-> isNum(v) /\ p \notin f.seen]) :
                        u \in f.unknowns}
             seen1 == f.seen \cup nextNumbers
             unknowns ==
                 UNION {getSurroundingSquares(g, st, n,
                            [p \in Squares, v \in STRING |-> isUnknown(v) /\ p \notin seen1]) :
                        n \in nextNumbers}
         IN growFrontier(g, st,
                [unknowns |-> unknowns,
                 frontierNums |-> f.frontierNums \cup nextNumbers,
                 frontierUnknowns |-> f.frontierUnknowns \cup unknowns,
                 seen |-> seen1 \cup unknowns])

\* the frontier appended with seen left as it was before the frontier was
\* grown: its squares can seed or enter a later frontier
appendUnseen(g, st, acc, f) ==
    [seen |-> acc.seen,
     frontiers |-> Append(acc.frontiers,
         [numSquares |-> f.frontierNums,
          unknownSquares |-> f.frontierUnknowns,
          newMarkSquares |->
              {p \in st.newMarks :
                 getSurroundingSquares(g, st, p,
                     [q \in Squares, v \in STRING |-> isNum(v) /\ q \in f.frontierNums]) # {}}])]

\* markSafeAndMines, the frontier grown from sq with the marks that would
\* be in it: the list of frontiers and seen afterwards.  f is growFrontier's
\* result
appendFrontier(g, st, acc, f) ==
    [seen |-> f.seen,
     frontiers |-> Append(acc.frontiers,
         [numSquares |-> f.frontierNums,
          unknownSquares |-> f.frontierUnknowns,
          newMarkSquares |->
              {p \in st.newMarks :
                 getSurroundingSquares(g, st, p,
                     [q \in Squares, v \in STRING |-> isNum(v) /\ q \in f.frontierNums]) # {}}])]

\* markSafeAndMines, the frontier of sq from its own new unknowns
startFrontier(g, st, seen, sq, unknowns) ==
    growFrontier(g, st,
        [unknowns |-> unknowns,
         frontierNums |-> {sq},
         frontierUnknowns |-> unknowns,
         seen |-> seen \cup {sq} \cup unknowns])

RECURSIVE buildFrontiers(_, _, _, _, _)
\* markSafeAndMines, the loop that builds the list of frontiers.  A frontier
\* is [numSquares, unknownSquares, newMarkSquares]; acc is
\* [seen, frontiers]
buildFrontiers(g, st, acc, squares, k) ==
    IF k > Len(squares) THEN acc.frontiers
    ELSE IF squares[k] \in acc.seen
    THEN buildFrontiers(g, st, acc, squares, k + 1)
    ELSE buildFrontiers(g, st,
             appendFrontier(g, st, acc,
                 startFrontier(g, st, acc.seen, squares[k],
                     getSurroundingSquares(g, st, squares[k],
                         [p \in Squares, v \in STRING |->
                             isUnknown(v) /\ p \notin acc.seen \cup {squares[k]}]))),
             squares, k + 1)

RECURSIVE Orders(_)
\* the orders in which a set S can be iterated, as by list(S) or a for loop
Orders(S) ==
    IF S = {} THEN {<<>>}
    ELSE UNION {{<<x>> \o order : order \in Orders(S \ {x})} : x \in S}

RECURSIVE byDistance(_, _)
\* analyzeNumSquaresInOrderFromNewMarks: the lists `squares` can be, the
\* numbered squares of a frontier by increasing distance from a newly marked
\* square; the squares at one distance come in the order the set numSquares
\* is iterated in, which can be any
byDistance(S, from) ==
    IF S = {} THEN {<<>>}
    ELSE LET d    == CHOOSE x \in {distance(p, from) : p \in S} :
                         \A p \in S : x <= distance(p, from)
             near == {p \in S : distance(p, from) = d}
         IN UNION {{first \o rest : rest \in byDistance(S \ near, from)} :
                      first \in Orders(near)}

RECURSIVE analyzeInTurn(_, _, _, _)
\* analyzeNumSquare on squares[k..] in turn; the result is st
analyzeInTurn(g, st, squares, k) ==
    IF k > Len(squares) THEN st
    ELSE analyzeInTurn(g, analyzeNumSquare(g, st, squares[k]).st, squares, k + 1)

\* analyzeNumSquaresInOrderFromNewMarks: the numbered squares outward from a
\* mark, then back
outAndBack(g, st, squares) ==
    analyzeInTurn(g, analyzeInTurn(g, st, squares, 1), Reverse(squares), 1)

\* the marks after the squares of numSquares were analysed outward from
\* mark and back, in each order `squares` can have
outAndBackFrom(g, st, numSquares, mark) ==
    {outAndBack(g, st, squares) : squares \in byDistance(numSquares, mark)}

RECURSIVE sweepFromMarks(_, _, _, _)
\* analyzeNumSquaresInOrderFromNewMarks, the loop over one frontier's
\* newMarkSquares, a set iterated in any order: the marks it can end with
sweepFromMarks(g, st, numSquares, newMarkSquares) ==
    IF newMarkSquares = {} THEN {st}
    ELSE UNION {UNION {sweepFromMarks(g, next, numSquares, newMarkSquares \ {mark}) :
                          next \in outAndBackFrom(g, st, numSquares, mark)} :
                   mark \in newMarkSquares}

\* analyzeNumSquaresInOrderFromNewMarks, after one frontier's marks: the
\* frontier loses the unknown squares that got marked.  acc is
\* [st, frontiers]
dropMarked(g, acc, f, st) ==
    [st |-> st,
     frontiers |-> Append(acc.frontiers,
         [f EXCEPT !.unknownSquares = {u \in @ : safeGet(g, st, u) = "?"}])]

RECURSIVE sweepFrontiers(_, _, _, _)
\* analyzeNumSquaresInOrderFromNewMarks, the loop over the frontiers: the
\* [st, frontiers] it can end with.  acc is [st, frontiers]
sweepFrontiers(g, acc, frontiers, k) ==
    IF k > Len(frontiers) THEN {acc}
    ELSE UNION {sweepFrontiers(g, dropMarked(g, acc, frontiers[k], st), frontiers, k + 1) :
                   st \in sweepFromMarks(g, acc.st, frontiers[k].numSquares,
                                         frontiers[k].newMarkSquares)}

\* analyzeNumSquaresInOrderFromNewMarks, the returned comparison
markedSince(origMarkCount, res) ==
    [marked |-> origMarkCount < Cardinality(res.st.newMarks),
     st |-> res.st, frontiers |-> res.frontiers]

\* MinesweeperSolver.analyzeNumSquaresInOrderFromNewMarks: the
\* [marked, st, frontiers] it can end with
analyzeNumSquaresInOrderFromNewMarks(g, st, frontiers) ==
    {markedSince(Cardinality(st.newMarks), res) :
        res \in sweepFrontiers(g, [st |-> st, frontiers |-> <<>>], frontiers, 1)}

RECURSIVE sweepUntilStable(_, _, _, _)
RECURSIVE sweepAgain(_, _)
\* markSafeAndMines, the loops
\* `while markedSquares and not self.safeUnrevealed`: the [st, frontiers]
\* they can end with
sweepUntilStable(g, st, frontiers, markedSquares) ==
    IF ~(markedSquares /\ st.safe = {})
    THEN {[st |-> st, frontiers |-> frontiers]}
    ELSE UNION {sweepAgain(g, res) :
                   res \in analyzeNumSquaresInOrderFromNewMarks(g, st, frontiers)}

\* the next turn of that loop, res being the sweep's result
sweepAgain(g, res) == sweepUntilStable(g, res.st, res.frontiers, res.marked)

\* checkFrontiersWereSplitUp: sum of the frontiers' remaining mine numbers
sumAllFrontiersNums(g, st, frontiers) ==
    LET r == [sq \in UNION {frontiers[k].numSquares : k \in 1..Len(frontiers)}
                |-> minesRemainingAt(g, st, sq)]
        perFrontier == [k \in 1..Len(frontiers) |-> SetSum(r, frontiers[k].numSquares)]
    IN SetSum(perFrontier, 1..Len(frontiers))

\* checkFrontiersWereSplitUp: number of still unknown frontier squares with
\* more than one square of their frontier's numSquares around them
sumAllFrontiersOverlaps(g, st, frontiers) ==
    LET perFrontier == [k \in 1..Len(frontiers) |->
            Cardinality({u \in frontiers[k].unknownSquares :
                /\ safeGet(g, st, u) = "?"
                /\ Cardinality(getSurroundingSquares(g, st, u,
                       [p \in Squares, v \in STRING |-> p \in frontiers[k].numSquares])) > 1})]
    IN SetSum(perFrontier, 1..Len(frontiers))

\* checkFrontiersWereSplitUp without its first case: the squares outside
\* the frontiers are never marked safe
checkFrontiersForMines(g, st, frontiers) ==
    LET sumNums == sumAllFrontiersNums(g, st, frontiers)
        nonFrontierUnknowns == getNonFrontierUnknowns(g, st)
        gameRemainingMines == g.mines - Cardinality(st.mines)
    IN IF sumAllFrontiersOverlaps(g, st, frontiers) # 0 THEN st
       ELSE IF nonFrontierUnknowns = {} THEN st
       ELSE IF Cardinality(nonFrontierUnknowns) = gameRemainingMines - sumNums
       THEN [st EXCEPT !.mines = @ \cup nonFrontierUnknowns]
       ELSE st

\* MinesweeperSolver.checkFrontiersWereSplitUp: st afterwards
checkFrontiersWereSplitUp(g, st, frontiers) ==
    LET sumNums == sumAllFrontiersNums(g, st, frontiers)
        nonFrontierUnknowns == getNonFrontierUnknowns(g, st)
        gameRemainingMines == g.mines - Cardinality(st.mines)
    IN IF sumAllFrontiersOverlaps(g, st, frontiers) # 0 THEN st
       ELSE IF nonFrontierUnknowns = {} THEN st
       ELSE IF sumNums = gameRemainingMines
       THEN [st EXCEPT !.safe = @ \cup nonFrontierUnknowns]
       ELSE IF Cardinality(nonFrontierUnknowns) = gameRemainingMines - sumNums
       THEN [st EXCEPT !.mines = @ \cup nonFrontierUnknowns]
       ELSE st

\* checkFrontierMineRanges applying both of its cases at once: the squares
\* outside the frontiers are marked as mines and as safe (C4)
checkFrontierMineRangesBoth(g, st, minMineTotal, maxMineTotal) ==
    IF g.mines - Cardinality(st.mines) = minMineTotal
    THEN [st EXCEPT !.mines = @ \cup getNonFrontierUnknowns(g, st),
                    !.safe = @ \cup getNonFrontierUnknowns(g, st)]
    ELSE st

\* MinesweeperSolver.checkFrontierMineRanges: st afterwards
checkFrontierMineRanges(g, st, minMineTotal, maxMineTotal) ==
    LET gameRemainingMines == g.mines - Cardinality(st.mines)
        nonFrontierUnknowns == getNonFrontierUnknowns(g, st)
    IN IF nonFrontierUnknowns = {} THEN st
       ELSE IF gameRemainingMines - maxMineTotal = Cardinality(nonFrontierUnknowns)
       THEN [st EXCEPT !.mines = @ \cup nonFrontierUnknowns]
       ELSE IF gameRemainingMines = minMineTotal
       THEN [st EXCEPT !.safe = @ \cup nonFrontierUnknowns]
       ELSE st

---------------------------------------------------------------------------
\* markSafeAndMines, the enumeration of each frontier's partial solutions.
\* A partial solution is a pair <<M, F>> of sets of the frontier's unknown
\* squares: the squares whose bit is set in the vector of mines and the
\* squares whose bit is set in the vector of forbidden positions.
\*
\* totals is [squaresByProb, expectedMineTotal, minMineTotal, maxMineTotal];
\* squaresByProb maps a float to the set of squares listed under it.

EmptyDict == [x \in {} |-> {}]

\* squaresByProb[prob].append(unknown), or the first entry under prob
appendUnder(d, prob, unknown) ==
    [k \in DOMAIN d \cup {prob} |->
        IF k = prob THEN (IF prob \in DOMAIN d THEN d[prob] ELSE {}) \cup {unknown}
        ELSE d[k]]

RECURSIVE appendAll(_, _, _)
\* appendUnder for every square of S, prob[u] being its probability
appendAll(d, prob, S) ==
    IF S = {} THEN d
    ELSE LET u == CHOOSE x \in S : TRUE
         IN appendAll(appendUnder(d, prob[u], u), prob, S \ {u})

RECURSIVE subtractOnes(_, _)
\* x -= 1, k times
subtractOnes(x, k) ==
    IF k = 0 THEN x ELSE subtractOnes(FloatSub(x, Float(1)), k - 1)

\* the partial solutions of a numbered square that place at most the mines
\* it still lacks, instead of exactly that many
numSquareSolutionsAtMost(g, st, sq) ==
    LET adj == unknownsAround(g, st, sq)
    IN {<<M, adj \ M>> :
          M \in {T \in SUBSET adj : Cardinality(T) <= minesRemainingAt(g, st, sq)}}

\* the partial solutions of one numbered square taken alone
numSquareSolutions(g, st, sq) ==
    LET adj == unknownsAround(g, st, sq)
    IN {<<M, adj \ M>> :
          M \in {T \in SUBSET adj : Cardinality(T) = minesRemainingAt(g, st, sq)}}

\* the merge without its test for conflicts: every pair of solutions is
\* combined, a square that is a mine in one and forbidden in the other too
mergeEverySolution(numSquare1Sols, numSquare2Sols) ==
    {<<a[1] \cup b[1], a[2] \cup b[2]>> :
        <<a, b>> \in numSquare1Sols \X numSquare2Sols}

\* the merge keeping only the pairs of solutions that set no mine in common
mergeApartSolutions(numSquare1Sols, numSquare2Sols) ==
    {<<a[1] \cup b[1], a[2] \cup b[2]>> :
        <<a, b>> \in {ab \in numSquare1Sols \X numSquare2Sols :
            /\ (ab[1][2] \cup ab[2][2]) \cap (ab[1][1] \cup ab[2][1]) = {}
            /\ ab[1][1] \cap ab[2][1] = {}}}

\* the merge of two sets of partial solutions
mergeSolutions(numSquare1Sols, numSquare2Sols) ==
    {<<a[1] \cup b[1], a[2] \cup b[2]>> :
        <<a, b>> \in {ab \in numSquare1Sols \X numSquare2Sols :
            (ab[1][2] \cup ab[2][2]) \cap (ab[1][1] \cup ab[2][1]) = {}}}

\* one pass of the merge step: each set at an even index (from 0) is merged
\* with its successor, which is emptied; the empty sets are dropped
mergeLevel(partialSolutionSets) ==
    LET n == Len(partialSolutionSets)
        merged == [i \in 1..n |->
            IF i % 2 = 1 /\ i + 1 <= n
            THEN mergeSolutions(partialSolutionSets[i], partialSolutionSets[i + 1])
            ELSE IF i % 2 = 0 THEN {}
            ELSE partialSolutionSets[i]]
    IN SelectSeq(merged, LAMBDA x : x # {})

RECURSIVE mergeAll(_)
\* the merge step: `while len(partialSolutionSets) > 1`
mergeAll(partialSolutionSets) ==
    IF Len(partialSolutionSets) > 1 THEN mergeAll(mergeLevel(partialSolutionSets))
    ELSE partialSolutionSets

RECURSIVE stableByDistance(_, _)
\* list.sort by distance from referenceSq: a stable sort of a sequence
stableByDistance(squares, referenceSq) ==
    IF squares = <<>> THEN <<>>
    ELSE LET k == CHOOSE i \in 1..Len(squares) :
                    \A j \in 1..Len(squares) :
                        \/ distance(squares[i], referenceSq) < distance(squares[j], referenceSq)
                        \/ /\ distance(squares[i], referenceSq) = distance(squares[j], referenceSq)
                           /\ i <= j
         IN <<squares[k]>> \o
            stableByDistance(SubSeq(squares, 1, k - 1) \o
                             SubSeq(squares, k + 1, Len(squares)), referenceSq)

\* the solutions left by `sol.bit_count() <= self.game.mines-len(self.mines)`,
\* or the division by their number failing
solutionsOrError(sols) ==
    IF sols = {} THEN [raised |-> "ZeroDivisionError", sols |-> {}]
    ELSE [raised |-> "", sols |-> sols]

\* partialSolutionSets[0] without the solutions that set too many mines
pruneSolutions(g, st, partialSolutionSets) ==
    IF partialSolutionSets = <<>> THEN [raised |-> "IndexError", sols |-> {}]
    ELSE solutionsOrError({sol \in partialSolutionSets[1] :
             Cardinality(sol[1]) <= g.mines - Cardinality(st.mines)})

\* numSquaresByDistFromRefSquare, list(numSquares) being order
byDistFromRefSquare(order) == stableByDistance(order, order[1])

\* the partial solutions of each numbered square, in the order of the merge
seedSolutions(g, st, sorted) ==
    [k \in 1..Len(sorted) |-> numSquareSolutions(g, st, sorted[k])]

\* the merge step on a frontier's numbered squares taken in the given order
mergeInOrder(g, st, order) ==
    mergeAll(seedSolutions(g, st, byDistFromRefSquare(order)))

\* some solution of merged[1] sets, around every numbered square of the
\* frontier, as many mines as the square is missing.  No merge is empty
\* then, in any order, and every order ends with the same set
satisfiesAll(g, st, f, merged) ==
    /\ merged # <<>>
    /\ \E sol \in merged[1] :
          \A sq \in f.numSquares :
              Cardinality(sol[1] \cap unknownsAround(g, st, sq)) =
                  minesRemainingAt(g, st, sq)

\* the merge step in every order list(numSquares) can come in, rowMajor
\* being its result in row-major order
mergeInAnyOrder(g, st, f, rowMajor) ==
    IF satisfiesAll(g, st, f, rowMajor) THEN {rowMajor}
    ELSE {mergeInOrder(g, st, order) : order \in Orders(f.numSquares)}

\* the surviving solutions of a frontier as pairs, or the exception the
\* source raises before it has them: the set of the [raised, sols] it can
\* come to
frontierSolutions(g, st, f) ==
    IF \E sq \in f.numSquares :
         \/ minesRemainingAt(g, st, sq) = 0
         \/ ~(unknownsAround(g, st, sq) \subseteq f.unknownSquares)
    THEN {[raised |-> "KeyError", sols |-> {}]}
    ELSE {pruneSolutions(g, st, merged) :
             merged \in mergeInAnyOrder(g, st, f,
                            mergeInOrder(g, st, RowMajor(f.numSquares)))}

\* the loop with the squares that are mines in every solution listed under
\* their probability like the others, and not marked
listUnknowns(st, totals, solutionsWhereMine, numSolutions, P) ==
    LET prob == [u \in P |-> FloatDiv(Float(solutionsWhereMine[u]), numSolutions)]
    IN [st |-> st,
        totals |-> [totals EXCEPT !.squaresByProb = appendAll(@, prob, P)]]

\* the loop `for unknown in unknownSquares` run over the squares of P, none
\* of which is a mine in no solution: [st, totals]
tallyUnknowns(st, totals, solutionsWhereMine, numSolutions, P) ==
    LET always == {u \in P : solutionsWhereMine[u] = numSolutions}
        prob == [u \in P \ always |->
                    FloatDiv(Float(solutionsWhereMine[u]), numSolutions)]
    IN [st |-> [st EXCEPT !.mines = @ \cup always, !.newMarks = @ \cup always],
        totals |-> [squaresByProb |-> appendAll(totals.squaresByProb, prob, P \ always),
                    expectedMineTotal |-> subtractOnes(totals.expectedMineTotal,
                                                       Cardinality(always)),
                    minMineTotal |-> totals.minMineTotal - Cardinality(always),
                    maxMineTotal |-> totals.maxMineTotal - Cardinality(always)]]

\* min(minesSetEachSol) and max(minesSetEachSol) over the values of a function
Least(f) == CHOOSE x \in {f[d] : d \in DOMAIN f} : \A d \in DOMAIN f : x <= f[d]
Most(f) == CHOOSE x \in {f[d] : d \in DOMAIN f} : \A d \in DOMAIN f : x >= f[d]

\* markSafeAndMines, the three totals after one more frontier
addFrontier(totals, minesSetEachSol, numSolutions) ==
    [totals EXCEPT
        !.expectedMineTotal =
            FloatAdd(@, FloatDiv(Float(SetSum(minesSetEachSol, DOMAIN minesSetEachSol)),
                                 numSolutions)),
        !.minMineTotal = @ + Least(minesSetEachSol),
        !.maxMineTotal = @ + Most(minesSetEachSol)]

\* one end of the loop over a frontier's unknown squares; t is
\* tallyUnknowns's result
endOfFrontier(t) == [st |-> t.st, totals |-> t.totals, stop |-> ""]
returnAt(t, unknown) ==
    [st |-> [t.st EXCEPT !.safe = @ \cup {unknown}], totals |-> t.totals,
     stop |-> "return"]

\* the loop over a frontier's unknown squares without its return: every
\* square that is a mine in no solution is marked safe and every other
\* square is tallied
tallyEveryUnknown(st, totals, solutionsWhereMine, numSolutions, unknownSquares) ==
    LET never == {u \in unknownSquares : solutionsWhereMine[u] = 0}
        t == tallyUnknowns(st, totals, solutionsWhereMine, numSolutions,
                           unknownSquares \ never)
    IN {[st |-> [t.st EXCEPT !.safe = @ \cup never], totals |-> t.totals,
         stop |-> IF never = {} THEN "" ELSE "return"]}

\* markSafeAndMines, `for unknown in unknownSquares`: the ways it can end.
\* list(unknownSquares) can come in any order: the squares met before the
\* first one that is a mine in no solution can be any set P of the others
tallyInAnyOrder(st, totals, solutionsWhereMine, numSolutions, unknownSquares) ==
    LET never == {u \in unknownSquares : solutionsWhereMine[u] = 0}
    IN IF never = {}
       THEN {endOfFrontier(tallyUnknowns(st, totals, solutionsWhereMine,
                                         numSolutions, unknownSquares))}
       ELSE {returnAt(tallyUnknowns(st, totals, solutionsWhereMine, numSolutions, P), u) :
                u \in never, P \in SUBSET (unknownSquares \ never)}

\* markSafeAndMines, one frontier from its solutions on
tallyFrontier(st, totals, unknownSquares, sols) ==
    tallyInAnyOrder(st,
        addFrontier(totals, [sol \in sols |-> Cardinality(sol[1])], Cardinality(sols)),
        [u \in unknownSquares |-> Cardinality({sol \in sols : u \in sol[1]})],
        Cardinality(sols), unknownSquares)

\* res is one of frontierSolutions's results
tallyOrRaise(st, totals, f, res) ==
    IF res.raised # "" THEN {[st |-> st, totals |-> totals, stop |-> res.raised]}
    ELSE tallyFrontier(st, totals, f.unknownSquares, res.sols)

\* markSafeAndMines, the body of the loop over the frontiers, for one
\* frontier: the set of [st, totals, stop] it can end with.  stop is ""
\* when the loop goes on, "return" when the function returned at a square
\* that is a mine in no solution, and the exception's name when one was
\* raised
enumerateFrontier(g, st, totals, f) ==
    UNION {tallyOrRaise(st, totals, f, res) : res \in frontierSolutions(g, st, f)}

RECURSIVE enumerateFrontiers(_, _, _, _, _)
\* markSafeAndMines, the loop over the frontiers from the k-th on
enumerateFrontiers(g, st, totals, frontiers, k) ==
    IF k > Len(frontiers) THEN {[st |-> st, totals |-> totals, stop |-> ""]}
    ELSE UNION {IF r.stop # "" THEN {r}
                ELSE enumerateFrontiers(g, r.st, r.totals, frontiers, k + 1) :
                r \in enumerateFrontier(g, st, totals, frontiers[k])}

ZeroTotals ==
    [squaresByProb |-> EmptyDict, expectedMineTotal |-> Zero,
     minMineTotal |-> 0, maxMineTotal |-> 0]

\* what markSafeAndMines leaves in the solver; raised names the exception
\* that ended it, "" when it returned
Outcome(st, totals, raised) ==
    [mines |-> st.mines, safeUnrevealed |-> st.safe,
     squaresByProb |-> totals.squaresByProb,
     expectedMineTotal |-> totals.expectedMineTotal,
     minMineTotal |-> totals.minMineTotal,
     maxMineTotal |-> totals.maxMineTotal,
     raised |-> raised]

\* markSafeAndMines, the last statement: squaresByProb without the mines
withoutMines(squaresByProb, mines) ==
    [prob \in {k \in DOMAIN squaresByProb : squaresByProb[k] \ mines # {}} |->
        squaresByProb[prob] \ mines]

\* markSafeAndMines, the totals after the mines the last sweeps added:
\* lowered, then held between the game's limits
clampTotals(totals, minesAdded, gameRemainingMines, nonFrontierCount) ==
    LET maxMineTotal == Min2(Max2(0, totals.maxMineTotal - minesAdded),
                             gameRemainingMines)
        minMineTotal == Max2(Max2(0, totals.minMineTotal - minesAdded),
                             gameRemainingMines - nonFrontierCount)
    IN [squaresByProb |-> totals.squaresByProb,
        expectedMineTotal |->
            FloatMin(Float(maxMineTotal),
                FloatMax(Float(minMineTotal),
                    FloatMax(Zero, FloatSub(totals.expectedMineTotal, Float(minesAdded))))),
        minMineTotal |-> minMineTotal,
        maxMineTotal |-> maxMineTotal]

\* markSafeAndMines, the end: squaresByProb loses the mines
withoutMarkedMines(st, totals) ==
    Outcome(st, [totals EXCEPT !.squaresByProb = withoutMines(@, st.mines)], "")

\* markSafeAndMines, the two checks on the totals
reconcile(g, st, frontiers, totals) ==
    withoutMarkedMines(
        checkFrontiersWereSplitUp(g,
            checkFrontierMineRanges(g, st, totals.minMineTotal, totals.maxMineTotal),
            frontiers),
        totals)

\* markSafeAndMines after the last sweeps, swept being their result
finishSwept(g, oldMines, totals, swept) ==
    reconcile(g, swept.st, swept.frontiers,
        clampTotals(totals, Cardinality(swept.st.mines \ oldMines),
                    g.mines - Cardinality(swept.st.mines),
                    Cardinality(getNonFrontierUnknowns(g, swept.st))))

\* markSafeAndMines from `oldMines = self.mines.copy()` to the end
finishMarking(g, st, totals, frontiers) ==
    {finishSwept(g, st.mines, totals, swept) :
        swept \in sweepUntilStable(g, st, frontiers, TRUE)}

\* markSafeAndMines after the loop over the frontiers ended as e
afterEnumeration(g, e, frontiers) ==
    IF e.stop = "" THEN finishMarking(g, e.st, e.totals, frontiers)
    ELSE IF e.stop = "return" THEN {Outcome(e.st, e.totals, "")}
    ELSE {Outcome(e.st, e.totals, e.stop)}

\* markSafeAndMines from the second `if self.safeUnrevealed`, split being
\* the marks after checkFrontiersWereSplitUp
afterSplitCheck(g, split, frontiers) ==
    IF split.safe # {} THEN {Outcome(split, ZeroTotals, "")}
    ELSE UNION {afterEnumeration(g, e, frontiers) :
                   e \in enumerateFrontiers(g, [split EXCEPT !.newMarks = {}],
                                            ZeroTotals, frontiers, 1)}

\* markSafeAndMines from the first `if self.safeUnrevealed`, swept being the
\* result of the sweeps
afterSweeps(g, swept) ==
    IF swept.st.safe # {} THEN {Outcome(swept.st, ZeroTotals, "")}
    ELSE afterSplitCheck(g,
             checkFrontiersWereSplitUp(g, swept.st, swept.frontiers),
             swept.frontiers)

\* markSafeAndMines from the list of frontiers on, second being the marks
\* and seen after the two passes
afterPasses(g, squares, second) ==
    UNION {afterSweeps(g, swept) :
              swept \in sweepUntilStable(g, second.st,
                            buildFrontiers(g, second.st,
                                [seen |-> second.seen, frontiers |-> <<>>], squares, 1),
                            TRUE)}

\* markSafeAndMines from the two passes over numberedSquares on
markFromNumbered(g, st, squares) ==
    afterPasses(g, squares,
        analyzeEach(g, analyzeEach(g, [st |-> st, seen |-> {}], squares, 1),
                    Reverse(squares), 1))

\* markSafeAndMines from the end of the sweeps, swept being their result,
\* to `for frontierNum in range(len(frontiers))`
splitChecked(swept, split) ==
    [st |-> [split EXCEPT !.newMarks = {}], frontiers |-> swept.frontiers,
     reached |-> swept.st.safe = {} /\ split.safe = {}]

\* markSafeAndMines up to `for frontierNum in range(len(frontiers))`: the
\* marks and the frontiers the loop can start from, and whether it is
\* reached, no safe square having been marked before
beforeEnumeration(g, mines, safeUnrevealed) ==
    LET st == [mines |-> mines, safe |-> safeUnrevealed, newMarks |-> {}]
        squares == numberedSquares(g, st)
        second == analyzeEach(g, analyzeEach(g, [st |-> st, seen |-> {}], squares, 1),
                              Reverse(squares), 1)
    IN {splitChecked(swept, checkFrontiersWereSplitUp(g, swept.st, swept.frontiers)) :
           swept \in sweepUntilStable(g, second.st,
                         buildFrontiers(g, second.st,
                             [seen |-> second.seen, frontiers |-> <<>>], squares, 1),
                         TRUE)}

\* markSafeAndMines on a solver that has forgotten its marks
markAfresh(g, mines, safeUnrevealed) ==
    markFromNumbered(g, [mines |-> {}, safe |-> {}, newMarks |-> {}],
        numberedSquares(g, [mines |-> {}, safe |-> {}, newMarks |-> {}]))

\* MinesweeperSolver.markSafeAndMines on a solver whose totals analyzeBoard
\* has just cleared: the set of the states it can leave
markSafeAndMines(g, mines, safeUnrevealed) ==
    markFromNumbered(g,
        [mines |-> mines, safe |-> safeUnrevealed, newMarks |-> {}],
        numberedSquares(g, [mines |-> mines, safe |-> safeUnrevealed, newMarks |-> {}]))

\* analyzeBoard keeping the revealed squares in safeUnrevealed: they can be
\* chosen again (C3)
analyzeBoardKeepRevealed(g, mines, safeUnrevealed) ==
    markSafeAndMines(g, mines, safeUnrevealed)

\* MinesweeperSolver.analyzeBoard
analyzeBoard(g, mines, safeUnrevealed) ==
    markSafeAndMines(g, mines,
        {p \in safeUnrevealed : gameSafeGet(g.board, g.rows, g.cols, p) = "?"})

\* selectMovePreferCornersEdges without its preferences (C10)
selectAnyMove(g, potentialMoves) == potentialMoves

\* MinesweeperSolver.selectMovePreferCornersEdges: the squares it can return
selectMovePreferCornersEdges(g, potentialMoves) ==
    LET moveCorner == {p \in potentialMoves :
            /\ (p[1] = 0 \/ p[1] = g.rows - 1)
            /\ (p[2] = 0 \/ p[2] = g.cols - 1)}
        moveEdge == {p \in potentialMoves :
            p[1] = 0 \/ p[1] = g.rows - 1 \/ p[2] = 0 \/ p[2] = g.cols - 1}
    IN IF moveCorner # {} THEN moveCorner
       ELSE IF moveEdge # {} THEN moveEdge
       ELSE potentialMoves

\* prefersFrontier with < for <=: a tie goes to the squares outside (C9)
prefersFrontierStrictly(mineCount, minesMarked, squaresByProb, expectedMineTotal, nonFrontierUnknowns) ==
    /\ DOMAIN squaresByProb # {}
    /\ \/ nonFrontierUnknowns = {}
       \/ FloatLt(FloatSetMin(DOMAIN squaresByProb),
                  FloatDiv(FloatSub(Float(mineCount - minesMarked), expectedMineTotal),
                           Cardinality(nonFrontierUnknowns)))

\* determineMove: the test that sends the move to the frontier squares
prefersFrontier(mineCount, minesMarked, squaresByProb, expectedMineTotal, nonFrontierUnknowns) ==
    LET minesNotInFrontiers == FloatSub(Float(mineCount - minesMarked), expectedMineTotal)
    IN /\ DOMAIN squaresByProb # {}
       /\ \/ nonFrontierUnknowns = {}
          \/ FloatLe(FloatSetMin(DOMAIN squaresByProb),
                     FloatDiv(minesNotInFrontiers, Cardinality(nonFrontierUnknowns)))

\* pop() leaving the element in the set (C8)
popSafeKeep(safeUnrevealed) ==
    {[move |-> m, safeUnrevealed |-> safeUnrevealed,
      strategy |-> "safe", potentialMoves |-> safeUnrevealed, raised |-> ""] :
     m \in safeUnrevealed}

\* determineMove, `move = self.safeUnrevealed.pop()`: any element, removed
popSafe(safeUnrevealed) ==
    {[move |-> m, safeUnrevealed |-> safeUnrevealed \ {m},
      strategy |-> "safe", potentialMoves |-> safeUnrevealed, raised |-> ""] :
     m \in safeUnrevealed}

\* MinesweeperSolver.determineMove: the set of
\* [move, safeUnrevealed, strategy, potentialMoves, raised] it can end with.
\* strategy is the printed move strategy, potentialMoves the candidates
\* the move was drawn from.  raised names the exception it ends with, ""
\* for none: with no unrevealed square on the board the last branch calls
\* randint(0, -1), a ValueError, before (self.row, self.col) is assigned
determineMove(g, mines, safeUnrevealed, squaresByProb, expectedMineTotal) ==
    LET st == [mines |-> mines, safe |-> safeUnrevealed, newMarks |-> {}]
        nonFrontierUnknowns == getNonFrontierUnknowns(g, st)
        minProbSquares == squaresByProb[FloatSetMin(DOMAIN squaresByProb)]
        unknownsOnBoard == {p \in Cells(g.rows, g.cols) :
                               gameSafeGet(g.board, g.rows, g.cols, p) = "?"}
        from(strategy, potentialMoves, choices) ==
            {[move |-> m, safeUnrevealed |-> safeUnrevealed,
              strategy |-> strategy, potentialMoves |-> potentialMoves,
              raised |-> ""] :
             m \in choices}
    IN IF safeUnrevealed # {} THEN popSafe(safeUnrevealed)
       ELSE IF prefersFrontier(g.mines, Cardinality(mines), squaresByProb,
                               expectedMineTotal, nonFrontierUnknowns)
       THEN from("frontier", minProbSquares,
                 selectMovePreferCornersEdges(g, minProbSquares))
       ELSE IF nonFrontierUnknowns # {}
       THEN from("outside", nonFrontierUnknowns,
                 selectMovePreferCornersEdges(g, nonFrontierUnknowns))
       ELSE IF unknownsOnBoard # {}
       THEN from("random", unknownsOnBoard, unknownsOnBoard)
       ELSE {[move |-> <<>>, safeUnrevealed |-> safeUnrevealed,
              strategy |-> "random", potentialMoves |-> {},
              raised |-> "ValueError"]}

---------------------------------------------------------------------------
\* The program: a MinesweeperSolver playing games through playGame

\* game is the Minesweeper instance, a record
\* [rows, cols, mines, board, mineLocations, seen, inProgress]; the other
\* variables up to lastMove are the solver's attributes, lastMove being
\* (self.row, self.col), <<>> for (None, None).  pc is the statement
\* playGame is at; strategy is the move strategy determineMove printed last
\* and potentialMoves the candidates that move was drawn from.  moves is
\* playGame's count of the moves made in the game.
VARIABLES game, mines, safeUnrevealed, squaresByProb, expectedMineTotal,
          minMineTotal, maxMineTotal, lastMove, pc, strategy, potentialMoves,
          moves

vars == <<game, mines, safeUnrevealed, squaresByProb, expectedMineTotal,
          minMineTotal, maxMineTotal, lastMove, pc, strategy, potentialMoves,
          moves>>

\* the configurations handed to the constructor and to playGame: none, or
\* three numbers, valid or not
Configs ==
    {<<>>} \cup {<<r, c, m>> : r \in 0..MaxRows, c \in 0..MaxCols, m \in 0..MaxMines}

\* the boards the model plays on, up to the widest one; a game on the
\* default 16 x 16 board is set up but not played
Playable == game.rows <= MaxRows /\ game.cols <= WideCols /\ game.mines <= MaxMines

\* Minesweeper.reset on a game whose configuration attributes are cur
reset(game_config, cur) ==
    LET cfg == resetConfig(game_config, cur)
    IN [rows |-> cfg[1], cols |-> cfg[2], mines |-> cfg[3],
        board |-> resetBoard(cfg[1], cfg[2]),
        mineLocations |-> {}, seen |-> 0, inProgress |-> TRUE]

\* resetSolverState leaving the marked mines where they are
resetAllButMines ==
    /\ safeUnrevealed' = {}
    /\ mines' = mines
    /\ squaresByProb' = EmptyDict
    /\ expectedMineTotal' = Zero
    /\ minMineTotal' = 0
    /\ maxMineTotal' = 0
    /\ lastMove' = <<>>

\* MinesweeperSolver.resetSolverState
resetSolverState ==
    /\ safeUnrevealed' = {}
    /\ mines' = {}
    /\ squaresByProb' = EmptyDict
    /\ expectedMineTotal' = Zero
    /\ minMineTotal' = 0
    /\ maxMineTotal' = 0
    /\ lastMove' = <<>>

\* MinesweeperSolver(game_config)
Init ==
    /\ game \in {reset(game_config, <<0, 0, 0>>) : game_config \in Configs}
    /\ safeUnrevealed = {}
    /\ mines = {}
    /\ squaresByProb = EmptyDict
    /\ expectedMineTotal = Zero
    /\ minMineTotal = 0
    /\ maxMineTotal = 0
    /\ lastMove = <<>>
    /\ pc = "idle"
    /\ strategy = ""
    /\ potentialMoves = {}
    /\ moves = 0

\* playGame(game_config), up to the loop: MinesweeperSolver.nextGame
NextGame(game_config) ==
    /\ pc \in {"idle", "done"}
    /\ resetSolverState
    /\ game' = reset(game_config, <<game.rows, game.cols, game.mines>>)
    /\ pc' = "determineMove"
    /\ strategy' = ""
    /\ potentialMoves' = {}
    /\ moves' = 0

\* playGame: move = self.determineMove(); an exception ends playGame
DetermineMove ==
    /\ pc = "determineMove"
    /\ Playable
    /\ \E o \in determineMove(game, mines, safeUnrevealed, squaresByProb,
                              expectedMineTotal) :
          /\ lastMove' = IF o.raised = "" THEN o.move ELSE lastMove
          /\ safeUnrevealed' = o.safeUnrevealed
          /\ strategy' = o.strategy
          /\ potentialMoves' = o.potentialMoves
          /\ pc' = IF o.raised = "" THEN "revealSquare" ELSE "raised"
    /\ UNCHANGED <<game, mines, squaresByProb, expectedMineTotal,
                   minMineTotal, maxMineTotal, moves>>

\* Minesweeper.revealSquare(row, col) on a game whose mines are at mineLocs
\* (placed just before when the game had none)
revealSquare(g, mineLocs, rowCol) ==
    LET waves == revealWaves(g.board, g.rows, g.cols, mineLocs, {rowCol}, g.seen)
        won == isWon(g.rows, g.cols, g.mines, waves.seen)
    IN IF g.mineLocations # {} /\ rowCol \in g.mineLocations
       THEN [g EXCEPT !.inProgress = FALSE,
                      !.board = revealMinesInBoard(g.board, g.mineLocations)]
       ELSE [g EXCEPT !.mineLocations = mineLocs,
                      !.seen = waves.seen,
                      !.inProgress = IF won THEN FALSE ELSE @,
                      !.board = IF won THEN revealMinesInBoard(waves.board, mineLocs)
                                ELSE waves.board]

\* playGame: self.game.revealSquare(*move, False), moves += 1 and the test
\* of inProgress
RevealSquare ==
    /\ pc = "revealSquare"
    /\ \E mineLocs \in IF game.mineLocations = {}
                       THEN placeMines(game.rows, game.cols, game.mines, lastMove)
                       ELSE {game.mineLocations} :
          game' = revealSquare(game, mineLocs, lastMove)
    /\ moves' = moves + 1
    /\ pc' = IF game'.inProgress THEN "analyzeBoard" ELSE "done"
    /\ UNCHANGED <<mines, safeUnrevealed, squaresByProb, expectedMineTotal,
                   minMineTotal, maxMineTotal, lastMove, strategy, potentialMoves>>

\* playGame: self.analyzeBoard(); an exception ends playGame
AnalyzeBoard ==
    /\ pc = "analyzeBoard"
    /\ \E o \in analyzeBoard(game, mines, safeUnrevealed) :
          /\ mines' = o.mines
          /\ safeUnrevealed' = o.safeUnrevealed
          /\ squaresByProb' = o.squaresByProb
          /\ expectedMineTotal' = o.expectedMineTotal
          /\ minMineTotal' = o.minMineTotal
          /\ maxMineTotal' = o.maxMineTotal
          /\ pc' = IF o.raised = "" THEN "determineMove" ELSE "raised"
    /\ UNCHANGED <<game, lastMove, strategy, potentialMoves, moves>>

Next ==
    \/ \E game_config \in Configs : NextGame(game_config)
    \/ DetermineMove
    \/ RevealSquare
    \/ AnalyzeBoard

Spec == Init /\ [][Next]_vars

---------------------------------------------------------------------------
\* analyzeBoard called a second time on the board it has just analysed

\* self.analyzeBoard() once more, after the call in playGame has returned
\* and before the next move is determined
AnalyzeAgain ==
    /\ pc = "determineMove"
    /\ lastMove # <<>>
    /\ \E o \in analyzeBoard(game, mines, safeUnrevealed) :
          /\ mines' = o.mines
          /\ safeUnrevealed' = o.safeUnrevealed
          /\ squaresByProb' = o.squaresByProb
          /\ expectedMineTotal' = o.expectedMineTotal
          /\ minMineTotal' = o.minMineTotal
          /\ maxMineTotal' = o.maxMineTotal
          /\ pc' = IF o.raised = "" THEN "analyzedAgain" ELSE "raised"
    /\ UNCHANGED <<game, lastMove, strategy, potentialMoves, moves>>

TwiceSpec == Init /\ [][Next \/ AnalyzeAgain]_vars

---------------------------------------------------------------------------
\* games on the widest board: MinesweeperSolver((MaxRows, WideCols,
\* MaxMines)), then playGame() again and again

WideInit ==
    /\ game = reset(<<MaxRows, WideCols, MaxMines>>, <<0, 0, 0>>)
    /\ safeUnrevealed = {}
    /\ mines = {}
    /\ squaresByProb = EmptyDict
    /\ expectedMineTotal = Zero
    /\ minMineTotal = 0
    /\ maxMineTotal = 0
    /\ lastMove = <<>>
    /\ pc = "idle"
    /\ strategy = ""
    /\ potentialMoves = {}
    /\ moves = 0

WideSpec ==
    WideInit /\ [][NextGame(<<>>) \/ DetermineMove \/ RevealSquare \/ AnalyzeBoard]_vars

---------------------------------------------------------------------------
\* playGame on configurations of any integers: those validGameConfig accepts
\* are played, a board without squares or with a negative count of mines
\* included

\* the configurations: none, or three integers of either sign, with no
\* more mines than the games that are played have
AnyConfigs ==
    {<<>>} \cup {<<r, c, m>> : r \in -MaxEntry..MaxEntry,
                               c \in -MaxEntry..MaxEntry,
                               m \in -MaxEntry..MaxMines}

\* MinesweeperSolver(game_config)
ConfigInit ==
    /\ game \in {reset(game_config, <<0, 0, 0>>) : game_config \in AnyConfigs}
    /\ safeUnrevealed = {}
    /\ mines = {}
    /\ squaresByProb = EmptyDict
    /\ expectedMineTotal = Zero
    /\ minMineTotal = 0
    /\ maxMineTotal = 0
    /\ lastMove = <<>>
    /\ pc = "idle"
    /\ strategy = ""
    /\ potentialMoves = {}
    /\ moves = 0

ConfigSpec ==
    ConfigInit /\ [][(\E game_config \in AnyConfigs : NextGame(game_config)) \/ DetermineMove \/ RevealSquare \/ AnalyzeBoard]_vars

---------------------------------------------------------------------------
\* analyzeBoard on its own: a solver that has marked nothing yet is handed
\* a game whose board shows any values, those no game of Minesweeper could
\* show included

BoardInit ==
    /\ \E r \in 1..BoardRows, c \in 1..BoardCols, m \in 1..MaxMines :
          /\ m < r * c
          /\ \E b \in [Cells(r, c) -> {"?", " "} \cup {str(n) : n \in 1..MaxNumber}] :
                game = [rows |-> r, cols |-> c, mines |-> m, board |-> b,
                        mineLocations |-> {},
                        seen |-> Cardinality({sq \in Cells(r, c) : b[sq] # "?"}),
                        inProgress |-> TRUE]
    /\ safeUnrevealed = {}
    /\ mines = {}
    /\ squaresByProb = EmptyDict
    /\ expectedMineTotal = Zero
    /\ minMineTotal = 0
    /\ maxMineTotal = 0
    /\ lastMove = <<>>
    /\ pc = "analyzeBoard"
    /\ strategy = ""
    /\ potentialMoves = {}
    /\ moves = 0

BoardSpec == BoardInit /\ [][AnalyzeBoard]_vars

---------------------------------------------------------------------------
\* selectMovePreferCornersEdges on its own: every nonempty list of
\* candidates on every board within the bounds

SelectInit ==
    /\ game \in {reset(<<r, c, 1>>, <<0, 0, 0>>) :
                   <<r, c>> \in {rc \in (1..MaxRows) \X (1..MaxCols) : rc[1] * rc[2] > 1}}
    /\ potentialMoves \in SUBSET Cells(MaxRows, MaxCols) \ {{}}
    /\ potentialMoves \subseteq Cells(game.rows, game.cols)
    /\ safeUnrevealed = {}
    /\ mines = {}
    /\ squaresByProb = EmptyDict
    /\ expectedMineTotal = Zero
    /\ minMineTotal = 0
    /\ maxMineTotal = 0
    /\ lastMove = <<>>
    /\ pc = "select"
    /\ strategy = ""
    /\ moves = 0

Select ==
    /\ pc = "select"
    /\ lastMove' \in selectMovePreferCornersEdges(game, potentialMoves)
    /\ pc' = "selected"
    /\ UNCHANGED <<game, mines, safeUnrevealed, squaresByProb, expectedMineTotal,
                   minMineTotal, maxMineTotal, strategy, potentialMoves, moves>>

SelectSpec == SelectInit /\ [][Select]_vars

---------------------------------------------------------------------------
\* a game opened on a square of the caller's choosing
\* (solver.game.revealSquare(row, col) as the first move), then played on
\* with analyzeBoard and determineMove as playGame does

\* the solver just constructed and the caller's first square chosen
OpenedInit ==
    /\ game = reset(<<2, MaxCols, MaxMines>>, <<0, 0, 0>>)
    /\ safeUnrevealed = {}
    /\ mines = {}
    /\ squaresByProb = EmptyDict
    /\ expectedMineTotal = Zero
    /\ minMineTotal = 0
    /\ maxMineTotal = 0
    /\ lastMove \in Cells(2, MaxCols)
    /\ pc = "revealSquare"
    /\ strategy = ""
    /\ potentialMoves = {}
    /\ moves = 0

OpenedSpec == OpenedInit /\ [][DetermineMove \/ RevealSquare \/ AnalyzeBoard]_vars

---------------------------------------------------------------------------
\* Properties

\* the solver's marks as the operators above take them
Marks == [mines |-> mines, safe |-> safeUnrevealed, newMarks |-> {}]

\* the squares of the board in play
Board == Cells(game.rows, game.cols)

\* the true number of mines around a square and the cell that shows it
TrueCount(p) == Cardinality({q \in game.mineLocations : distance(p, q) = 1})
Shown(n) == IF n = 0 THEN " " ELSE Digits[n]

\* C1: in every state reached during playGame, every square in the solver's
\* mines set is an actual mine of the game.
C1_MinesAreActualMines == mines \subseteq game.mineLocations

\* a state where the analysis has marked a mine and play goes on
C1_Witness == pc = "determineMove" /\ mines # {} /\ game.inProgress

\* C2: in every state reached during playGame no square in safeUnrevealed is
\* an actual mine, and a move taken from safeUnrevealed is not a mine: the
\* game is never lost by it.
C2_SafeAreNotMines ==
    /\ safeUnrevealed \cap game.mineLocations = {}
    /\ strategy = "safe" =>
          /\ lastMove \notin game.mineLocations
          /\ ~game.inProgress =>
                isWon(game.rows, game.cols, game.mines, game.seen)

\* a state where a safe move has been taken while another safe square is left
C2_Witness == pc = "revealSquare" /\ strategy = "safe" /\ safeUnrevealed # {}

\* C3: every move determineMove returns during playGame is in bounds, still
\* unrevealed on the game board and not marked as a mine by the solver.
C3_MoveIsUnrevealed ==
    pc = "revealSquare" =>
        /\ lastMove \in Board
        /\ game.board[lastMove] = "?"
        /\ lastMove \notin mines

\* a state where a move was chosen among frontier squares with mines marked
C3_Witness == pc = "revealSquare" /\ strategy = "frontier" /\ mines # {}

\* C4: mines and safeUnrevealed are disjoint after every analyzeBoard and
\* every determineMove.
C4_MinesSafeDisjoint ==
    pc \in {"determineMove", "revealSquare", "raised"} =>
        mines \cap safeUnrevealed = {}

\* a state after an analysis that has both mines and safe squares marked
C4_Witness == pc = "determineMove" /\ mines # {} /\ safeUnrevealed # {}

\* C5: the first revealSquare of a fresh game places the mines on exactly
\* game.mines distinct squares of the board, none of them the revealed one,
\* which is shown as a count and not as a mine.
C5_FirstRevealIsSafe ==
    [][pc = "revealSquare" /\ game.mineLocations = {} =>
          /\ game'.mineLocations \subseteq Board \ {lastMove}
          /\ Cardinality(game'.mineLocations) = game.mines
          /\ game'.board[lastMove] = Shown(Cardinality(
                 {q \in game'.mineLocations : distance(lastMove, q) = 1}))
          /\ game'.seen >= 1]_vars

\* a state just after the first reveal: mines placed, one square revealed
C5_Witness ==
    /\ pc = "analyzeBoard"
    /\ game.seen = 1
    /\ Cardinality(game.mineLocations) = game.mines
    /\ lastMove \notin game.mineLocations

\* the game's two ends: the square last revealed was a mine, or no square
\* without a mine is left unrevealed
MineRevealed == lastMove # <<>> /\ lastMove \in game.mineLocations
AllSafeRevealed ==
    /\ game.mineLocations # {}
    /\ \A p \in Board \ game.mineLocations : game.board[p] # "?"

\* C6: after any sequence of reveals of unrevealed squares, game.inProgress
\* is false if and only if a mine has been revealed or every square without
\* a mine has been revealed.
C6_InProgressIffNotTerminal ==
    pc # "revealSquare" =>
        (~game.inProgress <=> (MineRevealed \/ AllSafeRevealed))

\* a game won: every square without a mine revealed, no mine revealed
C6_Witness == ~game.inProgress /\ AllSafeRevealed /\ ~MineRevealed

\* C7: whenever the game is in progress, every revealed cell is not a mine
\* and shows the true number of mines around it, " " for none.
C7_RevealedShowTrueCounts ==
    game.inProgress =>
        \A p \in Board :
            game.board[p] # "?" =>
                /\ p \notin game.mineLocations
                /\ game.board[p] = Shown(TrueCount(p))

\* a game in progress after a cascade: an empty cell and a cell showing 2
C7_Witness ==
    /\ game.inProgress
    /\ \E p \in Board : game.board[p] = " "
    /\ \E p \in Board : game.board[p] = "2"

\* C8: if safeUnrevealed is nonempty when determineMove is called, the move
\* is an element of it, exactly that element is removed, and mines,
\* squaresByProb and the three mine totals are unchanged.
C8_SafeMoveIsPopped ==
    [][pc = "determineMove" /\ safeUnrevealed # {} =>
          /\ lastMove' \in safeUnrevealed
          /\ safeUnrevealed' = safeUnrevealed \ {lastMove'}
          /\ UNCHANGED <<mines, squaresByProb, expectedMineTotal,
                         minMineTotal, maxMineTotal>>]_vars

\* a state where a safe move was taken with mines marked and totals set
C8_Witness ==
    /\ pc = "revealSquare"
    /\ strategy = "safe"
    /\ mines # {}
    /\ maxMineTotal > 0

\* the test of C9 on the solver's numbers, the difference and the quotient
\* being the doubles Python computes
C9_Test(X) ==
    /\ DOMAIN squaresByProb # {}
    /\ \/ X = {}
       \/ FloatLe(FloatSetMin(DOMAIN squaresByProb),
                  FloatDiv(FloatSub(Float(game.mines - Cardinality(mines)),
                                    expectedMineTotal),
                           Cardinality(X)))

\* C9: with safeUnrevealed empty, determineMove picks among the frontier
\* squares of least probability exactly when squaresByProb is nonempty and
\* either the set X of non-frontier unknowns is empty or
\* min(keys(squaresByProb)) <= (G - expectedMineTotal) / |X|; otherwise,
\* when X is nonempty, it picks from X.  On a tie it picks the frontier.
C9_FrontierOrOutside ==
    pc = "revealSquare" /\ strategy # "safe" =>
        LET X == getNonFrontierUnknowns(game, Marks)
        IN /\ strategy = "frontier" <=> C9_Test(X)
           /\ strategy = "frontier" =>
                 lastMove \in squaresByProb[FloatSetMin(DOMAIN squaresByProb)]
           /\ ~C9_Test(X) /\ X # {} => strategy = "outside" /\ lastMove \in X

\* a state where the frontier was picked on a tie with the squares outside
C9_Witness ==
    /\ pc = "revealSquare"
    /\ strategy = "frontier"
    /\ getNonFrontierUnknowns(game, Marks) # {}
    /\ FloatSetMin(DOMAIN squaresByProb)
         = FloatDiv(FloatSub(Float(game.mines - Cardinality(mines)), expectedMineTotal),
                    Cardinality(getNonFrontierUnknowns(game, Marks)))

IsCorner(p) ==
    /\ p[1] \in {0, game.rows - 1}
    /\ p[2] \in {0, game.cols - 1}
IsEdge(p) == p[1] \in {0, game.rows - 1} \/ p[2] \in {0, game.cols - 1}

\* C10: selectMovePreferCornersEdges returns a member of its candidate list:
\* a corner whenever any candidate is a corner, otherwise a square on an
\* edge whenever any candidate is on an edge, otherwise any candidate.
C10_PrefersCornersThenEdges ==
    pc = "selected" =>
        /\ lastMove \in potentialMoves
        /\ (\E p \in potentialMoves : IsCorner(p)) => IsCorner(lastMove)
        /\ (\E p \in potentialMoves : IsEdge(p)) => IsEdge(lastMove)

\* a selection among edge and inner candidates, none of them a corner
C10_Witness ==
    /\ pc = "selected"
    /\ \A p \in potentialMoves : ~IsCorner(p)
    /\ \E p \in potentialMoves : ~IsEdge(p)
    /\ IsEdge(lastMove)

\* C11: calling analyzeBoard twice in succession on the same board leaves
\* squaresByProb, mines and safeUnrevealed after the second call equal to
\* their values after the first call.
C11_AnalyzeBoardIdempotent ==
    [][pc = "determineMove" /\ pc' \in {"analyzedAgain", "raised"} =>
          UNCHANGED <<squaresByProb, mines, safeUnrevealed>>]_vars

\* the most moves a game can take: one for every square without a mine
MostMoves == game.rows * game.cols - game.mines

\* the squares of the board that are not unrevealed
Revealed(g) == {p \in DOMAIN g.board : g.board[p] # "?"}

\* C12: playGame terminates for every valid configuration and mine
\* placement: each move reveals at least one square that was unrevealed
\* before, no step of the loop ends in an exception, and after at most
\* rows*cols - totalMines moves the loop has ended with the game reported
\* over (won or lost).
C12_PlayGameTerminates ==
    [][/\ pc = "revealSquare" =>
             /\ lastMove \in Revealed(game') \ Revealed(game)
             /\ Revealed(game) \subseteq Revealed(game')
       /\ moves' <= MostMoves'
       /\ moves' >= MostMoves' => pc' = "done"
       /\ pc' = "done" => ~game'.inProgress
       /\ pc' # "raised"]_vars

\* a game over after as many moves as it has squares without a mine, three
\* at least
C12_Witness == pc = "done" /\ moves = MostMoves /\ moves >= 3

\* analyzeBoard has returned to playGame
Returned == pc = "determineMove" /\ lastMove # <<>>

\* C13: whenever analyzeBoard returns, minMineTotal <= expectedMineTotal
\* <= maxMineTotal and both bounds lie between 0 and G, the total number
\* of mines minus the number of marked mines.
C13_TotalsOrderedAndBounded ==
    LET G == game.mines - Cardinality(mines)
    IN Returned =>
          /\ FloatLe(Float(minMineTotal), expectedMineTotal)
          /\ FloatLe(expectedMineTotal, Float(maxMineTotal))
          /\ 0 <= minMineTotal /\ minMineTotal <= G
          /\ 0 <= maxMineTotal /\ maxMineTotal <= G

\* C14: whenever analyzeBoard returns, every probability squaresByProb maps
\* is strictly between 0 and 1, and every square it lists is still a
\* candidate for the next move: unrevealed, not in mines and not in
\* safeUnrevealed.
C14_ListedAreOpenCandidates ==
    Returned =>
        \A p \in DOMAIN squaresByProb :
            /\ FloatLt(Zero, p) /\ FloatLt(p, Float(1))
            /\ squaresByProb[p] # {}
            /\ squaresByProb[p] \cap (mines \cup safeUnrevealed) = {}
            /\ \A sq \in squaresByProb[p] : game.board[sq] = "?"

\* analyzeBoard has listed squares by probability and marked a mine
C14_Witness == Returned /\ DOMAIN squaresByProb # {} /\ mines # {}

\* C15: within one game, mines never loses an element from one turn to the
\* next, and a square leaves safeUnrevealed only as the move determineMove
\* returns or once the game has revealed it.
C15_MarksAreKept ==
    [][pc \notin {"idle", "done"} =>
          /\ mines \subseteq mines'
          /\ \A sq \in safeUnrevealed \ safeUnrevealed' :
                \/ pc = "determineMove" /\ sq = lastMove'
                \/ game'.board[sq] # "?"]_vars

\* a game in which a mine is marked, a safe square has been played and the
\* squares the game revealed around it have left safeUnrevealed
C15_Witness ==
    /\ Returned
    /\ mines # {}
    /\ strategy = "safe"
    /\ potentialMoves \ (safeUnrevealed \cup {lastMove}) # {}

\* C16: nextGame with a configuration whose rows, cols or mines are out of
\* range (rows < 1, cols < 1, mines < 1 or mines >= rows * cols) ends in an
\* error and starts no game.
C16_BadConfigIsReported ==
    [][\A game_config \in Configs :
          LET outOfRange ==
                  /\ Len(game_config) = 3
                  /\ \/ game_config[1] < 1
                     \/ game_config[2] < 1
                     \/ game_config[3] < 1
                     \/ game_config[3] >= game_config[1] * game_config[2]
          IN outOfRange /\ NextGame(game_config) =>
                 pc' = "raised"]_vars

\* C17: after any reset of the game, by the constructor or by nextGame, on
\* any configuration of integers, the game in play has rows > 0, cols > 0
\* and 0 < mines < rows * cols.
C17_GameConfigInRange ==
    /\ game.rows > 0
    /\ game.cols > 0
    /\ 0 < game.mines
    /\ game.mines < game.rows * game.cols

\* C20: nextGame resets all the state of the session, whatever happened in
\* the game before: mines, safeUnrevealed and squaresByProb are empty, the
\* three mine totals are 0 and the last move is cleared; every square of
\* the board is unrevealed, no mine is placed and inProgress is true.
C20_NextGameResetsAll ==
    [][(pc \in {"idle", "done"}) =>
          /\ mines' = {} /\ safeUnrevealed' = {}
          /\ DOMAIN squaresByProb' = {}
          /\ expectedMineTotal' = Zero
          /\ minMineTotal' = 0 /\ maxMineTotal' = 0
          /\ lastMove' = <<>>
          /\ game'.mineLocations = {}
          /\ game'.inProgress
          /\ \A sq \in DOMAIN game'.board : game'.board[sq] = "?"]_vars

\* a lost game that left marked mines, listed probabilities, totals and a
\* last move behind for nextGame to clear
C20_Witness ==
    /\ pc = "done"
    /\ ~isWon(game.rows, game.cols, game.mines, game.seen)
    /\ mines # {}
    /\ DOMAIN squaresByProb # {}
    /\ maxMineTotal > 0
    /\ lastMove # <<>>

\* C18: if local propagation at some numbered square derives r < 0 or
\* r > |U| (r the number minus the mines marked around the square, U the
\* unknowns around it), analyzeBoard ends in a failure.  The square is one
\* that meets the contradiction under the marks analyzeBoard starts from
\* and still under the marks it ends with, so that every analyzeNumSquare
\* on it has met it.
C18_ContradictionIsFatal ==
    [][pc = "analyzeBoard" /\ pc' # "analyzeBoard" /\
       (\E sq \in Cells(game.rows, game.cols) :
           /\ contradictionAt(game, [mines |-> mines, safe |-> safeUnrevealed], sq)
           /\ contradictionAt(game, [mines |-> mines', safe |-> safeUnrevealed'], sq))
       => pc' = "raised"]_vars

\* C19: if no assignment of mines to the unknowns of a nonempty frontier
\* satisfies all the numbered squares of that frontier, analyzeBoard ends
\* in a failure: it never returns with marks, probabilities or totals
\* drawn from the solutions of some of the frontier's squares only.  The
\* frontier is the first one the enumeration takes up.
C19_NoSolutionIsFatal ==
    [][\A b \in beforeEnumeration(game, mines,
                    {p \in safeUnrevealed : game.board[p] = "?"}) :
       LET f == b.frontiers[1]
       IN /\ pc = "analyzeBoard" /\ pc' # "analyzeBoard"
          /\ b.reached /\ b.frontiers # <<>>
          /\ f.numSquares # {} /\ f.unknownSquares # {}
          /\ \A M \in SUBSET f.unknownSquares :
                \E sq \in f.numSquares :
                    Cardinality(M \cap unknownsAround(game, b.st, sq)) #
                        minesRemainingAt(game, b.st, sq)
          => pc' = "raised"]_vars

\* C21: on a 1 x 3 board with one mine at (0,1), once the first reveal, of
\* (0,0), shows '1', analyzeBoard leaves mines = {(0,1)} and safeUnrevealed
\* = {(0,2)}; the next determineMove returns (0,2), and revealing it wins
\* the game.
C21_ScenarioB ==
    (/\ game.rows = 1 /\ game.cols = 3 /\ game.mines = 1
     /\ game.mineLocations = {<<0, 1>>}
     /\ game.board[<<0, 0>>] = "1")
    => /\ pc = "determineMove" /\ lastMove = <<0, 0>> =>
             mines = {<<0, 1>>} /\ safeUnrevealed = {<<0, 2>>}
       /\ pc = "revealSquare" => lastMove = <<0, 2>> /\ strategy = "safe"
       /\ pc = "done" =>
             /\ moves = 2
             /\ game.board[<<0, 2>>] = "1"
             /\ ~game.inProgress
             /\ isWon(game.rows, game.cols, game.mines, game.seen)

\* the game of the scenario won by the move on (0,2) after the move on (0,0)
C21_Witness ==
    /\ game.rows = 1 /\ game.cols = 3 /\ game.mineLocations = {<<0, 1>>}
    /\ pc = "done" /\ lastMove = <<0, 2>> /\ strategy = "safe"
    /\ mines = {<<0, 1>>}
    /\ isWon(game.rows, game.cols, game.mines, game.seen)

\* C22 as stated: in scenario D (2 x 4, mines at (0,0) and (0,3), the first
\* reveal, of (1,1), showing '1') analyzeBoard lists (0,0), (0,1) and (0,2)
\* under probability 1/3, the squares outside the frontier are (0,3), (1,0)
\* and (1,3), expectedMineTotal is 1, and determineMove returns (0,0), (1,0)
\* or (1,3), never (0,1).
C22_AsStated ==
    (/\ game.rows = 2 /\ game.cols = 4 /\ game.mines = 2
     /\ game.mineLocations = {<<0, 0>>, <<0, 3>>}
     /\ game.board = [sq \in Cells(2, 4) |-> IF sq = <<1, 1>> THEN "1" ELSE "?"]) =>
        /\ Returned =>
              /\ squaresByProb = (FloatDiv(Float(1), 3) :>
                                    {<<0, 0>>, <<0, 1>>, <<0, 2>>})
              /\ getNonFrontierUnknowns(game, Marks)
                    = {<<0, 3>>, <<1, 0>>, <<1, 3>>}
              /\ expectedMineTotal = Float(1)
        /\ pc = "revealSquare" /\ moves = 1 =>
              lastMove \in {<<0, 0>>, <<1, 0>>, <<1, 3>>}

\* C22: in scenario D the one frontier holds the five unknown squares around
\* (1,1) and has five surviving solutions; analyzeBoard marks nothing, lists
\* (0,0), (0,1), (0,2), (1,0) and (1,2) under probability 1/5, leaves (0,3)
\* and (1,3) outside the frontier, and sets the three totals to 1, so that
\* the probability outside is (2 - 1) / 2; determineMove then returns (0,0)
\* or (1,0), the corners in the frontier, and never (0,1).
C22_ScenarioD ==
    (/\ game.rows = 2 /\ game.cols = 4 /\ game.mines = 2
     /\ game.mineLocations = {<<0, 0>>, <<0, 3>>}
     /\ game.board = [sq \in Cells(2, 4) |-> IF sq = <<1, 1>> THEN "1" ELSE "?"]) =>
        /\ Returned =>
              /\ \A b \in beforeEnumeration(game, {}, {}) :
                    /\ Len(b.frontiers) = 1
                    /\ \A res \in frontierSolutions(game, b.st, b.frontiers[1]) :
                          res.raised = "" /\ Cardinality(res.sols) = 5
              /\ mines = {} /\ safeUnrevealed = {}
              /\ squaresByProb = (FloatDiv(Float(1), 5) :>
                    {<<0, 0>>, <<0, 1>>, <<0, 2>>, <<1, 0>>, <<1, 2>>})
              /\ getNonFrontierUnknowns(game, Marks) = {<<0, 3>>, <<1, 3>>}
              /\ expectedMineTotal = Float(1)
              /\ minMineTotal = 1 /\ maxMineTotal = 1
              /\ FloatLt(FloatDiv(Float(1), 5),
                         FloatDiv(FloatSub(Float(game.mines), expectedMineTotal), 2))
        /\ pc = "revealSquare" /\ moves = 1 =>
              /\ strategy = "frontier"
              /\ lastMove \in {<<0, 0>>, <<1, 0>>}

\* scenario D with the second move chosen in the corner (1,0)
C22_Witness ==
    /\ game.rows = 2 /\ game.cols = 4 /\ game.mines = 2
    /\ game.mineLocations = {<<0, 0>>, <<0, 3>>}
    /\ game.board = [sq \in Cells(2, 4) |-> IF sq = <<1, 1>> THEN "1" ELSE "?"]
    /\ pc = "revealSquare" /\ moves = 1
    /\ strategy = "frontier" /\ lastMove = <<1, 0>>
    /\ DOMAIN squaresByProb = {FloatDiv(Float(1), 5)}

\* C23: for every frontier analyzeBoard enumerates, every surviving partial
\* solution sets, around each numbered square of the frontier, exactly the
\* square's number less its adjacent known mines among the square's adjacent
\* unknowns, and gives every unknown of the frontier exactly one of mine and
\* not-mine (Mines and Forbidden are disjoint and cover the unknowns).
C23_SolutionsSatisfyNumbers ==
    pc = "analyzeBoard" =>
        \A b \in beforeEnumeration(game, mines,
                     {p \in safeUnrevealed :
                         gameSafeGet(game.board, game.rows, game.cols, p) = "?"}) :
           b.reached =>
             \A k \in 1..Len(b.frontiers) :
               \A e \in enumerateFrontiers(game, b.st, ZeroTotals,
                                           SubSeq(b.frontiers, 1, k - 1), 1) :
                 e.stop = "" =>
                   \A res \in frontierSolutions(game, e.st, b.frontiers[k]) :
                     res.raised = "" =>
                       \A sol \in res.sols :
                         /\ sol[1] \cap sol[2] = {}
                         /\ sol[1] \cup sol[2] = b.frontiers[k].unknownSquares
                         /\ \A sq \in b.frontiers[k].numSquares :
                               Cardinality(sol[1] \cap unknownsAround(game, e.st, sq))
                                 = minesRemainingAt(game, e.st, sq)

\* a frontier of two numbered squares or more is enumerated and leaves more
\* than one solution, each of them the merge of a solution of every square
C23_Witness ==
    /\ pc = "analyzeBoard"
    /\ \E b \in beforeEnumeration(game, mines,
                    {p \in safeUnrevealed :
                        gameSafeGet(game.board, game.rows, game.cols, p) = "?"}) :
          /\ b.reached
          /\ \E k \in 1..Len(b.frontiers) :
                /\ Cardinality(b.frontiers[k].numSquares) >= 2
                /\ \E e \in enumerateFrontiers(game, b.st, ZeroTotals,
                                               SubSeq(b.frontiers, 1, k - 1), 1) :
                      /\ e.stop = ""
                      /\ \E res \in frontierSolutions(game, e.st, b.frontiers[k]) :
                            /\ res.raised = ""
                            /\ Cardinality(res.sols) >= 2
                            /\ \E sol \in res.sols : sol[1] # {} /\ sol[2] # {}

\* C24: the enumeration is complete.  For every frontier analyzeBoard
\* enumerates, every set of the frontier's unknowns that gives each numbered
\* square of the frontier its number less its adjacent known mines, and
\* holds no more mines than the game has left, is the Mines of a surviving
\* solution, in whatever order the numbered squares are merged and whether
\* their number is odd or even.
C24_EnumerationComplete ==
    pc = "analyzeBoard" =>
        \A b \in beforeEnumeration(game, mines,
                     {p \in safeUnrevealed :
                         gameSafeGet(game.board, game.rows, game.cols, p) = "?"}) :
           b.reached =>
             \A k \in 1..Len(b.frontiers) :
               \A e \in enumerateFrontiers(game, b.st, ZeroTotals,
                                           SubSeq(b.frontiers, 1, k - 1), 1) :
                 e.stop = "" =>
                   \A M \in SUBSET b.frontiers[k].unknownSquares :
                     (/\ Cardinality(M) <= game.mines - Cardinality(e.st.mines)
                      /\ \A sq \in b.frontiers[k].numSquares :
                            Cardinality(M \cap unknownsAround(game, e.st, sq))
                              = minesRemainingAt(game, e.st, sq))
                     => /\ \A res \in frontierSolutions(game, e.st, b.frontiers[k]) :
                              res.raised = "" /\ \E sol \in res.sols : sol[1] = M
                        /\ \A order \in Orders(b.frontiers[k].numSquares) :
                              \E sol \in pruneSolutions(game, e.st,
                                            mergeInOrder(game, e.st, order)).sols :
                                 sol[1] = M

\* a frontier of three numbered squares is enumerated and has two surviving
\* solutions or more
C24_Witness ==
    /\ pc = "analyzeBoard"
    /\ \E b \in beforeEnumeration(game, mines,
                    {p \in safeUnrevealed :
                        gameSafeGet(game.board, game.rows, game.cols, p) = "?"}) :
          /\ b.reached
          /\ b.frontiers # <<>>
          /\ Cardinality(b.frontiers[1].numSquares) = 3
          /\ \E res \in frontierSolutions(game, b.st, b.frontiers[1]) :
                res.raised = "" /\ Cardinality(res.sols) > 1

\* C25 as stated: once analyzeBoard has enumerated a frontier, every unknown
\* of the frontier that is a mine in no surviving solution is in
\* safeUnrevealed, every unknown that is a mine in all of them is in mines,
\* and every other unknown is listed in squaresByProb under
\* count / survivors.
C25_AsStated ==
    pc = "analyzeBoard" =>
        \A b \in beforeEnumeration(game, mines,
                     {p \in safeUnrevealed :
                         gameSafeGet(game.board, game.rows, game.cols, p) = "?"}) :
           b.reached =>
             \A k \in 1..Len(b.frontiers) :
               \A e \in enumerateFrontiers(game, b.st, ZeroTotals,
                                           SubSeq(b.frontiers, 1, k - 1), 1) :
                 e.stop = "" =>
                   \A res \in frontierSolutions(game, e.st, b.frontiers[k]) :
                     res.raised = "" =>
                       \A r \in tallyOrRaise(e.st, e.totals, b.frontiers[k], res) :
                         \A u \in b.frontiers[k].unknownSquares :
                           LET count == Cardinality({sol \in res.sols : u \in sol[1]})
                               prob == FloatDiv(Float(count), Cardinality(res.sols))
                           IN IF count = 0 THEN u \in r.st.safe
                              ELSE IF count = Cardinality(res.sols) THEN u \in r.st.mines
                              ELSE /\ prob \in DOMAIN r.totals.squaresByProb
                                   /\ u \in r.totals.squaresByProb[prob]

\* C25: once analyzeBoard has the surviving solutions of a frontier, with
\* count the number of them in which an unknown is a mine: when no unknown
\* of the frontier has count 0, the loop over the frontier goes on with
\* exactly the unknowns whose count is the number of survivors added to
\* mines and every other unknown listed in squaresByProb under
\* count / survivors; when some unknown has count 0, analyzeBoard returns
\* from the loop with exactly one such unknown added to safeUnrevealed, and
\* any other unknown of the frontier is either left as it was or, as above,
\* added to mines when its count is the number of survivors and listed
\* under count / survivors when it is in between.
C25_TallyMarksOneSafe ==
    pc = "analyzeBoard" =>
        \A b \in beforeEnumeration(game, mines,
                     {p \in safeUnrevealed :
                         gameSafeGet(game.board, game.rows, game.cols, p) = "?"}) :
           b.reached =>
             \A k \in 1..Len(b.frontiers) :
               \A e \in enumerateFrontiers(game, b.st, ZeroTotals,
                                           SubSeq(b.frontiers, 1, k - 1), 1) :
                 e.stop = "" =>
                   \A res \in frontierSolutions(game, e.st, b.frontiers[k]) :
                     res.raised = "" =>
                       \A r \in tallyOrRaise(e.st, e.totals, b.frontiers[k], res) :
                         LET U == b.frontiers[k].unknownSquares
                             n == Cardinality(res.sols)
                             count == [u \in U |->
                                         Cardinality({sol \in res.sols : u \in sol[1]})]
                             never == {u \in U : count[u] = 0}
                             always == {u \in U : count[u] = n}
                             listed == {u \in U :
                                 \E p \in DOMAIN r.totals.squaresByProb :
                                     u \in r.totals.squaresByProb[p]}
                             rightlyListed == {u \in U :
                                 LET prob == FloatDiv(Float(count[u]), n)
                                 IN /\ prob \in DOMAIN r.totals.squaresByProb
                                    /\ u \in r.totals.squaresByProb[prob]}
                         IN /\ listed = rightlyListed
                            /\ listed \cap (never \cup always) = {}
                            /\ r.st.mines \ e.st.mines \subseteq always
                            /\ listed \cap e.st.mines = {}
                            /\ IF never = {}
                               THEN /\ r.stop = ""
                                    /\ r.st.safe = e.st.safe
                                    /\ always \subseteq r.st.mines
                                    /\ listed = U \ always
                               ELSE /\ r.stop = "return"
                                    /\ \E u \in never : r.st.safe = e.st.safe \cup {u}

\* an enumerated frontier has two unknowns that are mines in no surviving
\* solution, and another that is a mine in all of them
C25_Witness ==
    /\ pc = "analyzeBoard"
    /\ \E b \in beforeEnumeration(game, mines,
                    {p \in safeUnrevealed :
                        gameSafeGet(game.board, game.rows, game.cols, p) = "?"}) :
          /\ b.reached
          /\ b.frontiers # <<>>
          /\ \E res \in frontierSolutions(game, b.st, b.frontiers[1]) :
                /\ res.raised = ""
                /\ Cardinality({u \in b.frontiers[1].unknownSquares :
                       \A sol \in res.sols : u \notin sol[1]}) > 1
                /\ \E u \in b.frontiers[1].unknownSquares :
                       \A sol \in res.sols : u \in sol[1]

\* C26: when analyzeBoard returns, no numbered square with an unknown
\* square around it has r = 0 or r = |U|, r being its number less the known
\* mines around it and U the unknown squares around it: the local rules
\* have nothing left to mark.
C26_LocalFixpoint ==
    Returned =>
        \A sq \in Board :
            isdigit(safeGet(game, Marks, sq)) /\ unknownsAround(game, Marks, sq) # {} =>
                /\ minesRemainingAt(game, Marks, sq) # 0
                /\ minesRemainingAt(game, Marks, sq)
                     # Cardinality(unknownsAround(game, Marks, sq))

\* C26, amended: when analyzeBoard returns without a square in
\* safeUnrevealed, no numbered square with an unknown square around it has
\* r = 0 or r = |U|.
C26_FixpointUnlessSafeKnown ==
    pc = "determineMove" /\ safeUnrevealed = {} =>
        \A sq \in Board :
            isdigit(safeGet(game, Marks, sq)) /\ unknownsAround(game, Marks, sq) # {} =>
                /\ minesRemainingAt(game, Marks, sq) # 0
                /\ minesRemainingAt(game, Marks, sq)
                     # Cardinality(unknownsAround(game, Marks, sq))

\* analyzeBoard has returned with mines marked, no square marked safe, and
\* a numbered square still next to an unknown one
C26_Witness ==
    /\ Returned
    /\ safeUnrevealed = {}
    /\ mines # {}
    /\ \E sq \in Board :
          /\ isdigit(safeGet(game, Marks, sq))
          /\ unknownsAround(game, Marks, sq) # {}
          /\ minesAround(game, Marks, sq) # {}

\* C27: in a game in progress, one analyzeNumSquare on a numbered square
\* with a nonempty set U of unknown squares around it, r being its number
\* less the known mines around it: when r = |U| it adds U to mines, otherwise when r = 0 it adds
\* U to safeUnrevealed; apart from that, when r is the number of mines the
\* game has left, it adds every unknown square farther than 1 from the
\* square to safeUnrevealed; it marks nothing else, so it removes no mark
\* and marks no square that was not unknown.  It reports the square
\* complete exactly when it marked U.
C27_AnalyzeNumSquareRules ==
    \A sq \in Board :
        LET res == analyzeNumSquare(game, Marks, sq)
            open == {p \in Board : game.board[p] = "?" /\ p \notin mines \cup safeUnrevealed}
            U == {p \in open : distance(sq, p) = 1}
            r == int(game.board[sq]) - Cardinality({p \in mines : distance(sq, p) = 1})
            far == IF r = game.mines - Cardinality(mines)
                   THEN {p \in open : distance(sq, p) > 1} ELSE {}
        IN (/\ game.inProgress
            /\ isdigit(game.board[sq]) /\ sq \notin mines \cup safeUnrevealed
            /\ U # {}) =>
              /\ res.st.mines = mines \cup (IF r = Cardinality(U) THEN U ELSE {})
              /\ res.st.safe = safeUnrevealed \cup far
                     \cup (IF r # Cardinality(U) /\ r = 0 THEN U ELSE {})
              /\ res.complete <=> (r = Cardinality(U) \/ r = 0)

\* a numbered square whose analysis marks the unknown squares around it as
\* mines and, these being all the mines left, an unknown square away from it
\* as safe
C27_Witness ==
    \E sq \in Board :
        /\ game.inProgress
        /\ isdigit(safeGet(game, Marks, sq))
        /\ unknownsAround(game, Marks, sq) # {}
        /\ analyzeNumSquare(game, Marks, sq).st.mines # mines
        /\ \E p \in analyzeNumSquare(game, Marks, sq).st.safe \ safeUnrevealed :
              distance(sq, p) > 1

\* C28: the frontiers one analyzeBoard builds are pairwise disjoint: no
\* numbered square and no unknown square is in two of them, when the list is
\* built and after the sweeps that follow.
C28_FrontiersDisjoint ==
    pc = "analyzeBoard" =>
        LET st == [mines |-> mines,
                   safe |-> {p \in safeUnrevealed :
                               gameSafeGet(game.board, game.rows, game.cols, p) = "?"},
                   newMarks |-> {}]
            squares == numberedSquares(game, st)
            second == analyzeEach(game,
                          analyzeEach(game, [st |-> st, seen |-> {}], squares, 1),
                          Reverse(squares), 1)
            built == buildFrontiers(game, second.st,
                         [seen |-> second.seen, frontiers |-> <<>>], squares, 1)
            swept == {res.frontiers : res \in sweepUntilStable(game, second.st, built, TRUE)}
        IN \A frontiers \in {built} \cup swept :
             \A i, j \in 1..Len(frontiers) :
                i # j =>
                   /\ frontiers[i].numSquares \cap frontiers[j].numSquares = {}
                   /\ frontiers[i].unknownSquares \cap frontiers[j].unknownSquares = {}

\* analyzeBoard builds two frontiers, each with unknown squares
C28_Witness ==
    /\ pc = "analyzeBoard"
    /\ \E b \in beforeEnumeration(game, mines,
                    {p \in safeUnrevealed :
                        gameSafeGet(game.board, game.rows, game.cols, p) = "?"}) :
          /\ Len(b.frontiers) > 1
          /\ \A k \in 1..Len(b.frontiers) : b.frontiers[k].unknownSquares # {}

\* C29: of the frontiers one analyzeBoard builds, each has as its unknown
\* squares exactly the unknown squares around its numbered squares, and
\* their numbered squares together are exactly the numbered squares with an
\* unknown square around them.
C29_FrontiersCover ==
    pc = "analyzeBoard" =>
        LET st == [mines |-> mines,
                   safe |-> {p \in safeUnrevealed :
                               gameSafeGet(game.board, game.rows, game.cols, p) = "?"},
                   newMarks |-> {}]
            squares == numberedSquares(game, st)
            second == analyzeEach(game,
                          analyzeEach(game, [st |-> st, seen |-> {}], squares, 1),
                          Reverse(squares), 1)
            built == buildFrontiers(game, second.st,
                         [seen |-> second.seen, frontiers |-> <<>>], squares, 1)
        IN /\ \A k \in 1..Len(built) :
                built[k].unknownSquares =
                    UNION {unknownsAround(game, second.st, sq) : sq \in built[k].numSquares}
           /\ UNION {built[k].numSquares : k \in 1..Len(built)} =
                 {sq \in Board : /\ isdigit(safeGet(game, second.st, sq))
                                 /\ unknownsAround(game, second.st, sq) # {}}

\* C30: when, after the passes and sweeps of analyzeBoard, safeUnrevealed
\* is empty, no unknown square has more than one numbered square around it,
\* the set X of unknown squares with no numbered square around them is
\* nonempty, and the numbers of the squares with an unknown square around
\* them, each less the known mines around it, add up to the number of mines
\* the game has left, then analyzeBoard marks exactly X safe and returns
\* without enumerating a frontier: squaresByProb is empty and the three
\* totals are 0.
C30_SplitFrontiersMarkOutsideSafe ==
    pc = "analyzeBoard" =>
        LET st0 == [mines |-> mines,
                    safe |-> {p \in safeUnrevealed :
                                gameSafeGet(game.board, game.rows, game.cols, p) = "?"},
                    newMarks |-> {}]
            squares == numberedSquares(game, st0)
            second == analyzeEach(game,
                          analyzeEach(game, [st |-> st0, seen |-> {}], squares, 1),
                          Reverse(squares), 1)
        IN \A swept \in sweepUntilStable(game, second.st,
                           buildFrontiers(game, second.st,
                               [seen |-> second.seen, frontiers |-> <<>>], squares, 1),
                           TRUE) :
        LET st == swept.st
            N == {sq \in Board : /\ isdigit(safeGet(game, st, sq))
                                 /\ unknownsAround(game, st, sq) # {}}
            r == [sq \in N |-> minesRemainingAt(game, st, sq)]
            X == {u \in Board : safeGet(game, st, u) = "?" /\ numsAround(game, st, u) = {}}
        IN (/\ st.safe = {}
            /\ \A sq \in N : \A u \in unknownsAround(game, st, sq) :
                  Cardinality(numsAround(game, st, u)) = 1
            /\ X # {}
            /\ SetSum(r, N) = game.mines - Cardinality(st.mines))
           => \A o \in analyzeBoard(game, mines, safeUnrevealed) :
                 /\ o.raised = ""
                 /\ o.safeUnrevealed = X
                 /\ o.mines = st.mines
                 /\ o.squaresByProb = EmptyDict
                 /\ o.expectedMineTotal = Zero
                 /\ o.minMineTotal = 0 /\ o.maxMineTotal = 0

\* the passes and sweeps of analyzeBoard mark no square safe, no unknown
\* square has two numbered squares around it, the numbers left add up to the
\* mines left, and there are unknown squares away from every number
C30_Witness ==
    /\ pc = "analyzeBoard"
    /\ LET st0 == [mines |-> mines,
                   safe |-> {p \in safeUnrevealed :
                               gameSafeGet(game.board, game.rows, game.cols, p) = "?"},
                   newMarks |-> {}]
           squares == numberedSquares(game, st0)
           second == analyzeEach(game,
                         analyzeEach(game, [st |-> st0, seen |-> {}], squares, 1),
                         Reverse(squares), 1)
       IN \E swept \in sweepUntilStable(game, second.st,
                          buildFrontiers(game, second.st,
                              [seen |-> second.seen, frontiers |-> <<>>], squares, 1),
                          TRUE) :
       LET st == swept.st
           N == {sq \in Board : /\ isdigit(safeGet(game, st, sq))
                                /\ unknownsAround(game, st, sq) # {}}
           r == [sq \in N |-> minesRemainingAt(game, st, sq)]
           X == {u \in Board : safeGet(game, st, u) = "?" /\ numsAround(game, st, u) = {}}
       IN /\ st.safe = {}
          /\ \A sq \in N : \A u \in unknownsAround(game, st, sq) :
                Cardinality(numsAround(game, st, u)) = 1
          /\ X # {}
          /\ Cardinality(N) > 1
          /\ SetSum(r, N) = game.mines - Cardinality(st.mines)
          /\ \E o \in analyzeBoard(game, mines, safeUnrevealed) : o.safeUnrevealed = X

=============================================================================
